---------------------------- MODULE Spec2Model ----------------------------
(***************************************************************************)
(* Hybrid retrieval and ranking pipeline of codebase-intelligence:         *)
(* BM25Retriever, VectorStore, HybridRetriever, DependencyGraphBuilder     *)
(* and the two rerankers, as a state machine.                              *)
(*                                                                         *)
(* Python strings are sequences of one-character strings, so that          *)
(* lower(), re.sub, replace, re.findall, split and "in" are computed.      *)
(* Scores are exact rationals <<numerator, denominator>> (denominator > 0).*)
(***************************************************************************)
EXTENDS Integers, Sequences, FiniteSets, TLC

VARIABLES
    collection,        \* VectorStore: the Chroma collection, records in insertion order
    bm25,              \* BM25Retriever.bm25: TRUE when a BM25Okapi object is held
    bm25_chunks,       \* BM25Retriever.chunks
    tokenized_corpus,  \* BM25Retriever.tokenized_corpus
    hr_chunks,         \* HybridRetriever._chunks
    file_to_chunks,    \* HybridRetriever._file_to_chunks
    graph_builder,     \* HybridRetriever._graph_builder (None or a builder with its graph)
    nx_available,      \* whether "import networkx" succeeded
    lastCall,          \* the last call that changed the indexes; for an index(),
                       \* whether it repeats the chunk list of an index() just before
    lastOp,            \* the query that has just returned, with its arguments
    lastResult,        \* what that query returned
    rr_search,         \* the search whose list is handed to a reranker
    rr_in,             \* the list that search returned
    rr_op,             \* the rerank call that has just returned
    rr_out,            \* what it returned
    rel_op,            \* the last get_related_files call
    rel_out,           \* the set it returned
    tok_in,            \* _tokenize: the text of the last call
    tok_out,           \* _tokenize: the returned token list
    id_words,          \* the words of the last identifier tokenized in both spellings
    id_camel,          \* _tokenize(camelCase spelling)
    id_snake,          \* _tokenize(snake_case spelling)
    fn_call,           \* the last call of a function of its arguments alone, with them
    fn_out,            \* what it returned
    api_state,         \* api.py: the global state dict (retriever, indexed)
    api_retrievers,    \* api.py: how far index() got on each HybridRetriever created
    api_threads        \* api.py: the request each worker thread handles, and its position

vars == <<collection, bm25, bm25_chunks, tokenized_corpus, hr_chunks, file_to_chunks,
          graph_builder, nx_available, lastCall, lastOp, lastResult,
          rr_search, rr_in, rr_op, rr_out, rel_op, rel_out,
          tok_in, tok_out, id_words, id_camel, id_snake,
          fn_call, fn_out, api_state, api_retrievers, api_threads>>

retrVars == <<collection, bm25, bm25_chunks, tokenized_corpus, hr_chunks, file_to_chunks,
              graph_builder, nx_available, lastCall, lastOp, lastResult>>

rerankVars == <<rr_search, rr_in, rr_op, rr_out>>

relVars == <<rel_op, rel_out>>

tokVars == <<tok_in, tok_out, id_words, id_camel, id_snake>>

fnVars == <<fn_call, fn_out>>

apiVars == <<api_state, api_retrievers, api_threads>>

\* Python's None where a string is expected, and where an int is expected
NoneStr == <<"<None>">>

NoneInt == -1

-----------------------------------------------------------------------------
(* Characters and strings *)

LowerSeq == <<"a","b","c","d","e","f","g","h","i","j","k","l","m",
              "n","o","p","q","r","s","t","u","v","w","x","y","z">>

UpperSeq == <<"A","B","C","D","E","F","G","H","I","J","K","L","M",
              "N","O","P","Q","R","S","T","U","V","W","X","Y","Z">>

DigitChars == {"0","1","2","3","4","5","6","7","8","9"}

WhiteChars == {" ", "\n", "\t"}

Range(s) == {s[i] : i \in 1..Len(s)}

LowerChars == Range(LowerSeq)

UpperChars == Range(UpperSeq)

IsLower(c) == c \in LowerChars

IsUpper(c) == c \in UpperChars

LowerOf == [c \in UpperChars |-> LowerSeq[CHOOSE i \in 1..26 : UpperSeq[i] = c]]

UpperOf == [c \in LowerChars |-> UpperSeq[CHOOSE i \in 1..26 : LowerSeq[i] = c]]

\* str.lower() on one character
LowerChar(c) == IF IsUpper(c) THEN LowerOf[c] ELSE c

\* str.upper() on one character
UpperChar(c) == IF IsLower(c) THEN UpperOf[c] ELSE c

\* str.lower()
Lower(s) == [i \in 1..Len(s) |-> LowerChar(s[i])]

\* "sub in s" for Python strings
Contains(sub, s) ==
    \E i \in 0..(Len(s) - Len(sub)) : \A j \in 1..Len(sub) : s[i + j] = sub[j]

RECURSIVE Concat(_)
\* "".join(list)
Concat(ss) == IF ss = <<>> THEN <<>> ELSE Head(ss) \o Concat(Tail(ss))

RECURSIVE JoinWith(_, _)
\* sep.join(list)
JoinWith(sep, ss) ==
    IF ss = <<>> THEN <<>>
    ELSE IF Len(ss) = 1 THEN Head(ss)
    ELSE Head(ss) \o sep \o JoinWith(sep, Tail(ss))

\* str.replace(old, new) for a one-character old
ReplaceChar(s, old, new) == [i \in 1..Len(s) |-> IF s[i] = old THEN new ELSE s[i]]

RECURSIVE Runs(_, _, _)
\* the maximal runs of characters satisfying keep, left to right; cur is the open run
Runs(s, keep, cur) ==
    IF s = <<>> THEN (IF cur = <<>> THEN <<>> ELSE <<cur>>)
    ELSE IF Head(s) \in keep THEN Runs(Tail(s), keep, Append(cur, Head(s)))
    ELSE (IF cur = <<>> THEN <<>> ELSE <<cur>>) \o Runs(Tail(s), keep, <<>>)

SelectSeqLen(ss) == SelectSeq(ss, LAMBDA t : Len(t) > 1)

-----------------------------------------------------------------------------
(* BM25Retriever._tokenize *)

RECURSIVE CamelSub(_)
\* re.sub(r'([a-z])([A-Z])', r'\1 \2', text): a space between a lower-case letter
\* and the upper-case letter that directly follows it
CamelSub(s) ==
    IF Len(s) < 2 THEN s
    ELSE IF IsLower(s[1]) /\ IsUpper(s[2])
         THEN <<s[1], " ">> \o CamelSub(Tail(s))
         ELSE <<s[1]>> \o CamelSub(Tail(s))

AlnumLower == LowerChars \cup DigitChars

\* re.findall(r'[a-z0-9]+', text)
FindAllAlnum(s) == Runs(s, AlnumLower, <<>>)

\* BM25Retriever._tokenize(text): lower() comes before the camelCase substitution
Tokenize(text) ==
    IF text = <<>> THEN <<>>
    ELSE SelectSeqLen(FindAllAlnum(ReplaceChar(CamelSub(Lower(text)), "_", " ")))

-----------------------------------------------------------------------------
(* Scores: Python floats as exact rationals *)

RECURSIVE GCD(_, _)
GCD(a, b) == IF b = 0 THEN a ELSE GCD(b, a % b)

Abs(x) == IF x < 0 THEN -x ELSE x

\* the rational n/d in lowest terms, d > 0
Rat(n, d) ==
    LET g == GCD(Abs(n), d) IN IF g = 0 THEN <<n, d>> ELSE <<n \div g, d \div g>>

Zero == <<0, 1>>

RAdd(x, y) ==
    LET g == GCD(x[2], y[2])
    IN  Rat(x[1] * (y[2] \div g) + y[1] * (x[2] \div g), (x[2] \div g) * y[2])

RECURSIVE PosLess(_, _, _, _)
\* a/b < c/d for a, c >= 0 and b, d > 0, by the continued-fraction expansion
\* (no product of the four numbers is formed)
PosLess(a, b, c, d) ==
    LET qa == a \div b
        qc == c \div d
        ra == a % b
        rc == c % d
    IN  IF qa # qc THEN qa < qc
        ELSE IF rc = 0 THEN FALSE
        ELSE IF ra = 0 THEN TRUE
        ELSE PosLess(d, rc, b, ra)

\* x < y
RLess(x, y) ==
    IF x[1] < 0 /\ y[1] >= 0 THEN TRUE
    ELSE IF x[1] >= 0 /\ y[1] < 0 THEN FALSE
    ELSE IF x[1] >= 0 THEN PosLess(x[1], x[2], y[1], y[2])
    ELSE PosLess(-y[1], y[2], -x[1], x[2])

REq(x, y) == ~RLess(x, y) /\ ~RLess(y, x)

RLeq(x, y) == ~RLess(y, x)

RECURSIVE InsertDesc(_, _)
\* p inserted into a list sorted by key descending, after every entry whose key
\* is not smaller: the order sorted(..., reverse=True) gives equal keys
InsertDesc(p, sorted) ==
    IF sorted = <<>> THEN <<p>>
    ELSE IF RLess(Head(sorted).key, p.key) THEN <<p>> \o sorted
    ELSE <<Head(sorted)>> \o InsertDesc(p, Tail(sorted))

RECURSIVE SortPairsDesc(_, _)
SortPairsDesc(pairs, acc) ==
    IF pairs = <<>> THEN acc
    ELSE SortPairsDesc(Tail(pairs), InsertDesc(Head(pairs), acc))

\* sorted(xs, key=..., reverse=True) with keys[i] the key of xs[i]: stable
SortedDesc(xs, keys) ==
    LET pairs == [i \in 1..Len(xs) |-> [key |-> keys[i], val |-> xs[i]]]
        out == SortPairsDesc(pairs, <<>>)
    IN  [i \in 1..Len(out) |-> out[i].val]

\* xs[:n] for n >= 0
Take(xs, n) == IF n >= Len(xs) THEN xs ELSE SubSeq(xs, 1, n)

\* dict.get(key, default)
Get(d, key, default) == IF key \in DOMAIN d THEN d[key] ELSE default

\* Python truthiness of an optional string
Truthy(x) == x # NoneStr /\ x # <<>>

-----------------------------------------------------------------------------
(* The chunks, files and queries the operations are called with *)

MaxChunks == 3      \* longest chunk list passed to index()
MaxTopK == 2        \* largest top_k passed to a search or a rerank

PathA == <<"a",".","p","y">>
PathB == <<"b",".","p","y">>
PathC == <<"c",".","p","y">>

Chunk(id, path, content, type, name, line) ==
    [chunk_id |-> id, file_path |-> path, content |-> content, chunk_type |-> type,
     name |-> name, parent |-> NoneStr, language |-> "python",
     start_line |-> line, end_line |-> line]

\* The chunks of three files in the order the chunker yields them (by file, then
\* line). k3's content has no token: it is dropped from the Lexical index
PoolSeq ==
    << Chunk("k1", PathA, <<"a","b","c"," ","d","e">>, "function", <<"a","b","c">>, 1),
       Chunk("k2", PathB, <<"d","e"," ","f","g","h">>, "class", <<"D","e">>, 1),
       Chunk("k3", PathB, <<"+">>, "module", NoneStr, 2),
       Chunk("k4", PathC, <<"i","j"," ","i","j">>, "function", NoneStr, 1) >>

ChunkPool == {PoolSeq[i] : i \in 1..Len(PoolSeq)}

ChunkIds == {c.chunk_id : c \in ChunkPool}

Ids(chunks) == {chunks[i].chunk_id : i \in 1..Len(chunks)}

\* the chunk lists index() is called with: at most MaxChunks chunks of the pool,
\* in the chunker's order, so that identities are unique within a list
ChunkLists ==
    { SelectSeq(PoolSeq, LAMBDA c : c.chunk_id \in S) :
        S \in {T \in SUBSET ChunkIds : Cardinality(T) <= MaxChunks} }

\* "+" has no token
Queries == { <<"a","b","c"," ","f","g","h">>, <<"a","b","c"," ","d","e">>, <<"a","b","c">>,
             <<"+">> }

TopKs == 0..MaxTopK

\* the two chunks of the login scenario: a function login and a class User
PathAuth == <<"a","u","t","h",".","p","y">>
PathUser == <<"u","s","e","r",".","p","y">>

LoginA ==
    Chunk("A", PathAuth,
          <<"d","e","f"," ","l","o","g","i","n","(",")",":"," ","r","e","t","u","r","n"," ","a","u","t","h","_","t","o","k","e","n">>,
          "function", <<"l","o","g","i","n">>, 1)

LoginB ==
    Chunk("B", PathUser,
          <<"c","l","a","s","s"," ","U","s","e","r",":"," ","p","a","s","s">>,
          "class", <<"U","s","e","r">>, 1)

LoginChunks == {LoginA, LoginB}

\* "login function"
LoginQuery == <<"l","o","g","i","n"," ","f","u","n","c","t","i","o","n">>

\* "User"
UserQuery == <<"U","s","e","r">>

LoginQueries == {LoginQuery, UserQuery}

PathM == <<"m",".","p","y">>
PathSlash == <<"a","/","b",".","p","y">>
PathUnder == <<"a","_","b",".","p","y">>

\* m.py holds g; a/b.py and a_b.py each hold a function f on line 1, which
\* _generate_chunk_id gives the one identity a_b_py_function_f_1
TwinM == Chunk("m_py_function_g_1", PathM, <<"a","b","c">>, "function", <<"g">>, 1)
TwinSlash == Chunk("a_b_py_function_f_1", PathSlash, <<"d","e">>, "function", <<"f">>, 1)
TwinUnder == Chunk("a_b_py_function_f_1", PathUnder, <<"f","g","h">>, "function", <<"f">>, 1)

TwinChunks == {TwinM, TwinSlash, TwinUnder}

\* the chunker's list for the three files: two of its chunks share an identity
TwinList == <<TwinSlash, TwinUnder, TwinM>>

AllChunks == ChunkPool \cup LoginChunks \cup TwinChunks

\* _tokenize of the contents and of the queries above, computed once
Tokens ==
    [text \in {c.content : c \in AllChunks} \cup Queries \cup LoginQueries |->
        Tokenize(text)]

-----------------------------------------------------------------------------
(* BM25Retriever *)

RECURSIVE SumSeq(_)
SumSeq(xs) == IF xs = <<>> THEN 0 ELSE Head(xs) + SumSeq(Tail(xs))

RECURSIVE SetToSeq(_)
SetToSeq(S) == IF S = {} THEN <<>> ELSE LET x == CHOOSE y \in S : TRUE
                                        IN  <<x>> \o SetToSeq(S \ {x})

\* 1000 * ln(m) for the odd m = 2i - 1, rounded
Ln1000 == <<0, 1099, 1609, 1946, 2197, 2398, 2565, 2708, 2833, 2944, 3045, 3135, 3219>>

\* the indices of the documents that passed the "if tokens" filter of index()
ValidIndices(corpus) == SelectSeq([i \in 1..Len(corpus) |-> i], LAMBDA i : corpus[i] # <<>>)

\* BM25Retriever.index(chunks) from the state old = [bm25, chunks, tokenized_corpus]
BM25Index(chunks, old) ==
    IF chunks = <<>> THEN old
    ELSE LET corpus == [i \in 1..Len(chunks) |-> Tokens[chunks[i].content]]
             valid_indices == ValidIndices(corpus)
         IN  IF valid_indices = <<>>
             THEN [bm25 |-> FALSE, chunks |-> chunks, tokenized_corpus |-> corpus]
             ELSE [bm25 |-> TRUE,
                   chunks |-> [j \in 1..Len(valid_indices) |-> chunks[valid_indices[j]]],
                   tokenized_corpus |->
                       [j \in 1..Len(valid_indices) |-> corpus[valid_indices[j]]]]

\* BM25: the number of occurrences of word in doc
Freq(word, doc) == Cardinality({i \in 1..Len(doc) : doc[i] = word})

\* BM25._initialize: nd[word], the number of documents holding word
DocCount(word, corpus) == Cardinality({i \in 1..Len(corpus) : Freq(word, corpus[i]) > 0})

Vocabulary(corpus) == UNION {Range(corpus[i]) : i \in 1..Len(corpus)}

\* BM25Okapi._calc_idf: 1000 * (log(N - n + 0.5) - log(n + 0.5))
IdfRaw(word, corpus) ==
    LET n == DocCount(word, corpus)
        N == Len(corpus)
    IN  Ln1000[N - n + 1] - Ln1000[n + 1]

IdfSum(corpus) ==
    LET ws == SetToSeq(Vocabulary(corpus))
    IN  SumSeq([i \in 1..Len(ws) |-> IdfRaw(ws[i], corpus)])

\* the denominator that makes eps = 0.25 * idf_sum / len(idf) an integer
IdfScale(corpus) == 4 * Cardinality(Vocabulary(corpus))

\* BM25Okapi.idf[word] * 1000 * IdfScale: a negative idf is replaced by eps;
\* "self.idf.get(q) or 0" for a word the corpus does not hold
Idf(word, corpus) ==
    IF word \notin Vocabulary(corpus) THEN 0
    ELSE IF IdfRaw(word, corpus) < 0 THEN IdfSum(corpus)
    ELSE IdfScale(corpus) * IdfRaw(word, corpus)

\* 1000 * f * (k1 + 1) / (f + k1 * (1 - b + b * dl / avgdl)), k1 = 1.5, b = 0.75,
\* avgdl = total / N, rounded down
Tf1000(f, dl, total, N) == (20000 * f * total) \div (8 * f * total + 3 * total + 9 * dl * N)

\* BM25Okapi.get_scores(query_tokens)
BM25Scores(query_tokens, corpus) ==
    LET total == SumSeq([j \in 1..Len(corpus) |-> Len(corpus[j])])
        idf == [word \in Range(query_tokens) |-> Idf(word, corpus)]
        scale == IdfScale(corpus) * 1000000
    IN  [i \in 1..Len(corpus) |->
            Rat(SumSeq([q \in 1..Len(query_tokens) |->
                           idf[query_tokens[q]]
                           * Tf1000(Freq(query_tokens[q], corpus[i]), Len(corpus[i]),
                                    total, Len(corpus))]),
                scale)]

\* BM25Okapi.get_scores(query_tokens)[i]
BM25Score(query_tokens, corpus, i) == BM25Scores(query_tokens, corpus)[i]

BM25Metadata(chunk) ==
    [file_path |-> chunk.file_path, chunk_type |-> chunk.chunk_type, name |-> chunk.name,
     start_line |-> chunk.start_line, end_line |-> chunk.end_line,
     language |-> chunk.language]

BM25Entry(chunk, score) ==
    [chunk_id |-> chunk.chunk_id, content |-> chunk.content,
     metadata |-> BM25Metadata(chunk), score |-> score]

\* the search without the "scores[idx] > 0" test
BM25SearchKeepAll(st, query, top_k) ==
    IF ~st.bm25 \/ st.chunks = <<>> THEN <<>>
    ELSE LET query_tokens == Tokens[query]
             n == Len(st.chunks)
             scores == BM25Scores(query_tokens, st.tokenized_corpus)
             top_indices == Take(SortedDesc([i \in 1..n |-> i], scores), top_k)
         IN  [j \in 1..Len(top_indices) |->
                 BM25Entry(st.chunks[top_indices[j]], scores[top_indices[j]])]

\* BM25Retriever.search(query, top_k) on the state st = [bm25, chunks, tokenized_corpus]
BM25Search(st, query, top_k) ==
    IF ~st.bm25 \/ st.chunks = <<>> THEN <<>>
    ELSE LET query_tokens == Tokens[query]
         IN  IF query_tokens = <<>> THEN <<>>
             ELSE LET n == Len(st.chunks)
                      scores == BM25Scores(query_tokens, st.tokenized_corpus)
                      top_indices == Take(SortedDesc([i \in 1..n |-> i], scores), top_k)
                      kept == SelectSeq(top_indices, LAMBDA i : RLess(Zero, scores[i]))
                  IN  [j \in 1..Len(kept) |->
                          BM25Entry(st.chunks[kept[j]], scores[kept[j]])]

-----------------------------------------------------------------------------
(* CodeChunk.to_embedding_text and VectorStore *)

IsLetter(c) == IsLower(c) \/ IsUpper(c)

\* str.title(): a letter that follows no letter is upper-cased, the others lower-cased
Title(s) ==
    [i \in 1..Len(s) |->
        IF i = 1 \/ ~IsLetter(s[i - 1]) THEN UpperChar(s[i]) ELSE LowerChar(s[i])]

\* the chunk kinds of the pool as Python strings
TypeStr(t) ==
    CASE t = "function" -> <<"f","u","n","c","t","i","o","n">>
      [] t = "class"    -> <<"c","l","a","s","s">>
      [] t = "module"   -> <<"m","o","d","u","l","e">>
      [] OTHER          -> <<>>

\* CodeChunk.to_embedding_text
ToEmbeddingText(chunk) ==
    LET file == << <<"#"," ","F","i","l","e",":"," ">> \o chunk.file_path >>
        name == IF Truthy(chunk.name)
                THEN << <<"#"," ">> \o Title(TypeStr(chunk.chunk_type)) \o <<":"," ">>
                        \o chunk.name >>
                ELSE <<>>
        parent == IF Truthy(chunk.parent)
                  THEN << <<"#"," ","C","l","a","s","s",":"," ">> \o chunk.parent >>
                  ELSE <<>>
    IN  JoinWith(<<"\n">>, file \o name \o parent \o << <<>>, chunk.content >>)

\* VectorStore._prepare_metadata (the chunks of the pool carry no repo_name,
\* docstring or imports)
PrepareMetadata(chunk) ==
    LET base == [file_path |-> chunk.file_path, chunk_type |-> chunk.chunk_type,
                 language |-> chunk.language, start_line |-> chunk.start_line,
                 end_line |-> chunk.end_line]
        named == IF Truthy(chunk.name) THEN base @@ [name |-> chunk.name] ELSE base
    IN  IF Truthy(chunk.parent) THEN named @@ [parent |-> chunk.parent] ELSE named

BatchSize == 100

\* CodeEmbedder.embed_documents / embed_query on one text. The embedding model is a
\* fixed function of the text; here the set of the text's tokens
Embed(text) == Range(Tokenize(text))

\* the record collection.add stores for one chunk
CollectionRecord(chunk) ==
    [id |-> chunk.chunk_id, document |-> ToEmbeddingText(chunk),
     embedding |-> Embed(ToEmbeddingText(chunk)), metadata |-> PrepareMetadata(chunk)]

\* the records of the chunks above and the embeddings of the queries, computed once
Records == [chunk \in AllChunks |-> CollectionRecord(chunk)]

QueryEmbeddings == [query \in Queries \cup LoginQueries |-> Embed(query)]

CollectionIds(coll) == {coll[i].id : i \in 1..Len(coll)}

RECURSIVE CollectionAddAll(_, _)
\* collection.add that stores a record also under an id the collection holds
CollectionAddAll(coll, batch) ==
    IF batch = <<>> THEN coll
    ELSE CollectionAddAll(
             Append(coll, Records[Head(batch)]),
             Tail(batch))

RECURSIVE CollectionAdd(_, _)
\* chromadb Collection.add(ids, embeddings, documents, metadatas): a record whose
\* id the collection already holds is ignored, the others are appended
CollectionAdd(coll, batch) ==
    IF batch = <<>> THEN coll
    ELSE IF Head(batch).chunk_id \in CollectionIds(coll)
         THEN CollectionAdd(coll, Tail(batch))
         ELSE CollectionAdd(
                  Append(coll, Records[Head(batch)]),
                  Tail(batch))

RECURSIVE AddChunks(_, _)
\* VectorStore.add_chunks(chunks): one collection.add per batch of BatchSize chunks
AddChunks(coll, chunks) ==
    IF chunks = <<>> THEN coll
    ELSE AddChunks(CollectionAdd(coll, Take(chunks, BatchSize)),
                   IF Len(chunks) <= BatchSize THEN <<>>
                   ELSE SubSeq(chunks, BatchSize + 1, Len(chunks)))

\* an embedding model that cannot tell one text from another
SimilarityNone(q, d) == Zero

\* 1 - cosine distance of two embeddings: the share of common tokens
Similarity(q, d) ==
    IF q \cup d = {} THEN Zero
    ELSE Rat(Cardinality(q \cap d), Cardinality(q \cup d))

NoFilter == NoneStr

\* the "where" clause {"file_path": filter}
Matches(rec, filter) == filter = NoFilter \/ rec.metadata.file_path = filter

\* VectorStore.search(query, top_k, filter_dict): collection.query refuses
\* n_results <= 0; the closest n_results records, nearest first
DenseSearch(coll, query, top_k, filter) ==
    IF top_k <= 0 THEN [raised |-> TRUE, results |-> <<>>]
    ELSE LET cand == SelectSeq(coll, LAMBDA r : Matches(r, filter))
             query_embedding == QueryEmbeddings[query]
             scored == [i \in 1..Len(cand) |->
                          [chunk_id |-> cand[i].id, content |-> cand[i].document,
                           metadata |-> cand[i].metadata,
                           score |-> Similarity(query_embedding, cand[i].embedding)]]
         IN  [raised |-> FALSE,
              results |-> Take(SortedDesc(scored,
                                   [i \in 1..Len(scored) |-> scored[i].score]), top_k)]

-----------------------------------------------------------------------------
(* DependencyGraphBuilder *)

\* A source file as build_graph reads it: what ast.parse and ast.walk find in
\* its content (parses = FALSE: a SyntaxError)
File(path, language, parses, imports) ==
    [path |-> path, language |-> language, parses |-> parses, imports |-> imports]

Import(module, is_relative) == [module |-> module, is_relative |-> is_relative]

\* a.py imports b and os, b.py imports c, c.py has "from .a import x"
FileA == File(PathA, "python", TRUE, <<Import(<<"b">>, FALSE), Import(<<"o","s">>, FALSE)>>)
FileB == File(PathB, "python", TRUE, <<Import(<<"c">>, FALSE)>>)
FileC == File(PathC, "python", TRUE, <<Import(<<"a">>, TRUE)>>)
FileR == File(<<"r",".","m","d">>, "markdown", TRUE, <<>>)

FileD == File(<<"d",".","p","y">>, "python", TRUE, <<Import(<<"c">>, FALSE)>>)

\* the file lists index() is called with (<<>>: no files given)
FileLists == { <<>>, <<FileA, FileB, FileC>> }

FileSeq == <<FileA, FileB, FileC, FileD, FileR>>

\* the file lists build_graph is called with: any files of the repository, in order
GraphFileLists ==
    { SelectSeq(FileSeq, LAMBDA f : f.path \in S) :
        S \in SUBSET {FileSeq[i].path : i \in 1..Len(FileSeq)} }

RECURSIVE SplitOn(_, _, _)
\* str.split(sep) for a one-character sep; cur is the open part
SplitOn(s, sep, cur) ==
    IF s = <<>> THEN <<cur>>
    ELSE IF Head(s) = sep THEN <<cur>> \o SplitOn(Tail(s), sep, <<>>)
    ELSE SplitOn(Tail(s), sep, Append(cur, Head(s)))

DotPy == <<".","p","y">>

EndsWith(s, suf) == Len(s) >= Len(suf) /\ SubSeq(s, Len(s) - Len(suf) + 1, Len(s)) = suf

\* str.removesuffix(suf)
RemoveSuffix(s, suf) == IF EndsWith(s, suf) THEN SubSeq(s, 1, Len(s) - Len(suf)) ELSE s

\* file.path.replace("/", ".").replace("\\", ".").removesuffix(".py")
ModuleName(path) ==
    RemoveSuffix(ReplaceChar(ReplaceChar(path, "/", "."), "\\", "."), DotPy)

\* str(Path(source_file).parent) for a relative path
PathParent(path) ==
    LET slashes == {i \in 1..Len(path) : path[i] = "/"}
    IN  IF slashes = {} THEN <<".">>
        ELSE SubSeq(path, 1, (CHOOSE i \in slashes : \A j \in slashes : j <= i) - 1)

\* the files _process_file makes a node of
ProcessedFiles(files) ==
    {files[i] : i \in {j \in 1..Len(files) : files[j].language = "python" /\ files[j].parses}}

FileNodes(files) == {f.path : f \in ProcessedFiles(files)}

\* module_to_file: a later file of the list overwrites an earlier one of the same module
ModuleToFile(files, module) ==
    LET hits == {i \in 1..Len(files) : files[i] \in ProcessedFiles(files)
                                       /\ ModuleName(files[i].path) = module}
    IN  IF hits = {} THEN NoneStr
        ELSE files[CHOOSE i \in hits : \A j \in hits : j <= i].path

RECURSIVE ResolveAbsolute(_, _, _)
\* the loop "for i in range(len(module_parts), 0, -1)" of _resolve_import
ResolveAbsolute(files, module_parts, i) ==
    IF i = 0 THEN NoneStr
    ELSE LET test_module == JoinWith(<<".">>, SubSeq(module_parts, 1, i))
             test_path == JoinWith(<<"/">>, SubSeq(module_parts, 1, i)) \o DotPy
         IN  IF ModuleToFile(files, test_module) # NoneStr
             THEN ModuleToFile(files, test_module)
             ELSE IF test_path \in FileNodes(files) THEN test_path
             ELSE ResolveAbsolute(files, module_parts, i - 1)

\* DependencyGraphBuilder._resolve_import(imp, source_file)
ResolveImport(files, imp, source_file) ==
    IF imp.is_relative
    THEN LET module_path == ReplaceChar(imp.module, ".", "/")
             resolved == PathParent(source_file) \o <<"/">> \o module_path \o DotPy
         IN  IF module_path # <<>> /\ resolved \in FileNodes(files) THEN resolved
             ELSE NoneStr
    ELSE LET module_parts == SplitOn(imp.module, ".", <<>>)
         IN  ResolveAbsolute(files, module_parts, Len(module_parts))

\* the path an absolute import names, <module path>.py
ImportPath(imp) == ReplaceChar(imp.module, ".", "/") \o DotPy

\* a build_graph that adds an edge for every absolute import, to the path it names
GraphEdgesAnyTarget(files) ==
    UNION { { <<f.path, ImportPath(f.imports[i])>> :
                i \in {j \in 1..Len(f.imports) : ~f.imports[j].is_relative} } :
            f \in ProcessedFiles(files) }

\* the edges build_graph adds: an import that resolves to a node
GraphEdges(files) ==
    LET all == UNION { { <<f.path, ResolveImport(files, f.imports[i], f.path)>> :
                           i \in 1..Len(f.imports) } : f \in ProcessedFiles(files) }
    IN  {e \in all : e[2] # NoneStr /\ e[2] \in FileNodes(files)}

\* m.py imports a_b; a/b.py and a_b.py import nothing
FileM == File(PathM, "python", TRUE, <<Import(<<"a","_","b">>, FALSE)>>)
FileSlash == File(PathSlash, "python", TRUE, <<>>)
FileUnder == File(PathUnder, "python", TRUE, <<>>)

TwinFiles == <<FileSlash, FileUnder, FileM>>

\* e.py does not parse; p/q.py has "from .r import x", "from . import y",
\* "import e" and "import p.zz"
FileBad == File(<<"e",".","p","y">>, "python", FALSE, <<>>)
FileQ == File(<<"p","/","q",".","p","y">>, "python", TRUE,
              <<Import(<<"r">>, TRUE), Import(<<>>, TRUE), Import(<<"e">>, FALSE),
                Import(<<"p",".","z","z">>, FALSE)>>)
FilePR == File(<<"p","/","r",".","p","y">>, "python", TRUE, <<>>)

BuildSeq == FileSeq \o <<FileBad, FileQ, FilePR>>

\* any files of the larger repository, in order
BuildFileLists ==
    { SelectSeq(BuildSeq, LAMBDA f : f.path \in S) :
        S \in SUBSET {BuildSeq[i].path : i \in 1..Len(BuildSeq)} }

\* the nodes of the graph: add_node for every processed file, and add_edge adds
\* an end of the edge that is no node yet
GraphNodeSet(files) ==
    FileNodes(files) \cup {e[1] : e \in GraphEdges(files)} \cup {e[2] : e \in GraphEdges(files)}

\* the nodes and edges build_graph gives the file lists above, computed once
Graphs ==
    [files \in BuildFileLists \cup {TwinFiles} |->
        [nodes |-> GraphNodeSet(files), edges |-> GraphEdges(files)]]

\* HybridRetriever._graph_builder = None
NoBuilder == [present |-> FALSE, has_graph |-> FALSE, nodes |-> {}, edges |-> {}]

\* DependencyGraphBuilder after build_graph(files); nx = FALSE: networkx is missing
\* and the builder keeps graph = None
BuildGraph(files, nx) ==
    IF ~nx THEN [present |-> TRUE, has_graph |-> FALSE, nodes |-> {}, edges |-> {}]
    ELSE [present |-> TRUE, has_graph |-> TRUE, nodes |-> Graphs[files].nodes,
          edges |-> Graphs[files].edges]

\* DependencyGraphBuilder.get_dependencies, as a set
GetDependencies(g, file_path) ==
    IF ~g.has_graph \/ file_path \notin g.nodes THEN {}
    ELSE {e[2] : e \in {d \in g.edges : d[1] = file_path}}

\* DependencyGraphBuilder.get_dependents, as a set
GetDependents(g, file_path) ==
    IF ~g.has_graph \/ file_path \notin g.nodes THEN {}
    ELSE {e[1] : e \in {d \in g.edges : d[2] = file_path}}

Neighbours(g, level) ==
    UNION {GetDependencies(g, f) \cup GetDependents(g, f) : f \in level}

RECURSIVE RelatedLoop(_, _, _, _)
\* the loop "for _ in range(depth)" of get_related_files: related is updated
\* before current_level is computed from it
RelatedLoop(g, related, current_level, rounds) ==
    IF rounds = 0 THEN related
    ELSE LET next_level == Neighbours(g, current_level)
             updated == related \cup next_level
         IN  RelatedLoop(g, updated, next_level \ updated, rounds - 1)

\* a builder that relates every file of the repository to every other
GetRelatedFilesAnyFile(g, file_path, depth) ==
    {FileSeq[i].path : i \in 1..Len(FileSeq)} \ {file_path}

\* DependencyGraphBuilder.get_related_files(file_path, depth)
GetRelatedFiles(g, file_path, depth) ==
    IF ~g.has_graph \/ file_path \notin g.nodes THEN {}
    ELSE RelatedLoop(g, {}, {file_path}, depth) \ {file_path}

\* graph.nodes(): the nodes in the order _process_file added them, the order of
\* the files
GraphNodes(g) ==
    SelectSeq([i \in 1..Len(FileSeq) |-> FileSeq[i].path], LAMBDA p : p \in g.nodes)

\* graph.in_degree(node)
InDegree(g, node) == Cardinality({e \in g.edges : e[2] = node})

\* graph.degree(node): a file importing itself counts twice
Degree(g, node) == InDegree(g, node) + Cardinality({e \in g.edges : e[1] = node})

\* sorted(pairs, key=lambda x: x[1], reverse=True) of (node, degree(node)) pairs
ByDegree(nodes, degree) ==
    LET pairs == [i \in 1..Len(nodes) |-> <<nodes[i], degree[nodes[i]]>>]
    IN  SortedDesc(pairs, [i \in 1..Len(pairs) |-> Rat(pairs[i][2], 1)])

\* DependencyGraphBuilder.get_most_connected_files(top_n)
GetMostConnectedFiles(g, top_n) ==
    IF ~g.has_graph \/ g.nodes = {} THEN <<>>
    ELSE Take(ByDegree(GraphNodes(g), [n \in g.nodes |-> Degree(g, n)]), top_n)

\* DependencyGraphBuilder.get_entry_points()
GetEntryPoints(g) ==
    IF ~g.has_graph THEN <<>>
    ELSE SelectSeq(GraphNodes(g), LAMBDA n : InDegree(g, n) = 0)

\* DependencyGraphBuilder.get_core_modules()
GetCoreModules(g) ==
    IF ~g.has_graph \/ g.nodes = {} THEN <<>>
    ELSE LET sorted_nodes == ByDegree(GraphNodes(g), [n \in g.nodes |-> InDegree(g, n)])
             core == SelectSeq(sorted_nodes, LAMBDA pair : pair[2] > 0)
         IN  Take([i \in 1..Len(core) |-> core[i][1]], 10)

-----------------------------------------------------------------------------
(* HybridRetriever *)

DenseWeight == <<7, 10>>     \* dense_weight = 0.7
Bm25Weight == <<3, 10>>      \* bm25_weight = 0.3
RrfK == 60                   \* k of _reciprocal_rank_fusion
DependencyScore == <<1, 10>> \* "score": 0.1 of a dependency-sourced entry

\* a fusion that gives every rank the contribution of the first
ContributionFlat(weight, rank) == Rat(weight[1], weight[2] * (RrfK + 1))

\* a fusion that divides by k plus the 0-based rank
ContributionZeroBased(weight, rank) == Rat(weight[1], weight[2] * (RrfK + rank))

\* weight / (k + rank + 1) for the 0-based rank of enumerate()
Contribution(weight, rank) == Rat(weight[1], weight[2] * (RrfK + rank + 1))

\* a dict that keeps one more value under a key it already holds
DictAppend(d, value) == Append(d, value)

\* dict[key] = value on a dict kept as the list of its values in insertion order:
\* a key already present keeps its place
DictPut(d, value) ==
    IF \E i \in 1..Len(d) : d[i].chunk_id = value.chunk_id
    THEN [i \in 1..Len(d) |-> IF d[i].chunk_id = value.chunk_id THEN value ELSE d[i]]
    ELSE Append(d, value)

RECURSIVE FuseDense(_, _, _, _)
\* the first loop of _reciprocal_rank_fusion, from the 0-based rank
FuseDense(dense_weight, scores, dense_results, rank) ==
    IF rank >= Len(dense_results) THEN scores
    ELSE LET result == dense_results[rank + 1]
         IN  FuseDense(dense_weight,
                 DictPut(scores,
                     [chunk_id |-> result.chunk_id, content |-> result.content,
                      metadata |-> result.metadata,
                      rrf_score |-> Contribution(dense_weight, rank),
                      dense_rank |-> rank + 1, bm25_rank |-> NoneInt]),
                 dense_results, rank + 1)

RECURSIVE FuseBm25(_, _, _, _)
\* the second loop of _reciprocal_rank_fusion
FuseBm25(bm25_weight, scores, bm25_results, rank) ==
    IF rank >= Len(bm25_results) THEN scores
    ELSE LET result == bm25_results[rank + 1]
             bm25_contribution == Contribution(bm25_weight, rank)
             known == \E i \in 1..Len(scores) : scores[i].chunk_id = result.chunk_id
             old == scores[CHOOSE i \in 1..Len(scores) :
                               scores[i].chunk_id = result.chunk_id]
         IN  FuseBm25(bm25_weight,
                 IF known
                 THEN DictPut(scores,
                          [old EXCEPT !.rrf_score = RAdd(old.rrf_score, bm25_contribution),
                                      !.bm25_rank = rank + 1])
                 ELSE DictPut(scores,
                          [chunk_id |-> result.chunk_id, content |-> result.content,
                           metadata |-> result.metadata,
                           rrf_score |-> bm25_contribution,
                           dense_rank |-> NoneInt, bm25_rank |-> rank + 1]),
                 bm25_results, rank + 1)

\* _reciprocal_rank_fusion(dense_results, bm25_results) on a retriever created
\* with the weights dense_weight and bm25_weight
ReciprocalRankFusionWith(dense_weight, bm25_weight, dense_results, bm25_results) ==
    LET scores == FuseBm25(bm25_weight, FuseDense(dense_weight, <<>>, dense_results, 0),
                           bm25_results, 0)
        combined == SortedDesc(scores, [i \in 1..Len(scores) |-> scores[i].rrf_score])
    IN  [i \in 1..Len(combined) |->
            [chunk_id |-> combined[i].chunk_id, content |-> combined[i].content,
             metadata |-> combined[i].metadata, score |-> combined[i].rrf_score,
             dense_rank |-> combined[i].dense_rank, bm25_rank |-> combined[i].bm25_rank]]

\* HybridRetriever._reciprocal_rank_fusion(dense_results, bm25_results), the
\* retriever created with the default weights
ReciprocalRankFusion(dense_results, bm25_results) ==
    ReciprocalRankFusionWith(DenseWeight, Bm25Weight, dense_results, bm25_results)

\* the _file_to_chunks mapping index() builds
FileToChunks(chunks) ==
    [p \in {chunks[i].file_path : i \in 1..Len(chunks)} |->
        LET own == SelectSeq(chunks, LAMBDA c : c.file_path = p)
        IN  [i \in 1..Len(own) |-> own[i].chunk_id]]

ResultFiles(results) ==
    {Get(Get(results[i], "metadata", [x \in {} |-> <<>>]), "file_path", <<>>) :
        i \in 1..Len(results)}

\* new_files of _expand_with_dependencies
NewFiles(g, results) ==
    LET top_files == {f \in ResultFiles(Take(results, 5)) : f # <<>>}
        related_files == UNION {GetRelatedFiles(g, f, 1) : f \in top_files}
    IN  related_files \ ResultFiles(results)

\* the lists "list(new_files)[:3]" can be: a set is iterated in any order
NewFileOrders(g, results) ==
    LET new_files == NewFiles(g, results)
        n == IF Cardinality(new_files) < 3 THEN Cardinality(new_files) ELSE 3
    IN  {o \in [1..n -> new_files] : Cardinality(Range(o)) = n}

DependencyEntry(chunk) ==
    [chunk_id |-> chunk.chunk_id, content |-> chunk.content,
     metadata |-> [file_path |-> chunk.file_path, chunk_type |-> chunk.chunk_type,
                   name |-> chunk.name, start_line |-> chunk.start_line,
                   end_line |-> chunk.end_line, language |-> chunk.language,
                   from_dependency |-> TRUE],
     score |-> DependencyScore, from_dependency |-> TRUE]

RECURSIVE AppendChunksUnchecked(_, _, _)
\* the loop without the test "chunk_id not in existing_ids"
AppendChunksUnchecked(results, chunk_ids, chunks) ==
    IF chunk_ids = <<>> THEN results
    ELSE LET chunk_id == Head(chunk_ids)
             hits == {i \in 1..Len(chunks) : chunks[i].chunk_id = chunk_id}
         IN  IF hits = {}
             THEN AppendChunksUnchecked(results, Tail(chunk_ids), chunks)
             ELSE AppendChunksUnchecked(
                      Append(results,
                          DependencyEntry(chunks[CHOOSE i \in hits : \A j \in hits : i <= j])),
                      Tail(chunk_ids), chunks)

RECURSIVE AppendChunks(_, _, _)
\* the loop over self._file_to_chunks[file_path][:2]
AppendChunks(results, chunk_ids, chunks) ==
    IF chunk_ids = <<>> THEN results
    ELSE LET chunk_id == Head(chunk_ids)
             hits == {i \in 1..Len(chunks) : chunks[i].chunk_id = chunk_id}
         IN  IF chunk_id \in Ids(results) \/ hits = {}
             THEN AppendChunks(results, Tail(chunk_ids), chunks)
             ELSE AppendChunks(
                      Append(results,
                          DependencyEntry(chunks[CHOOSE i \in hits : \A j \in hits : i <= j])),
                      Tail(chunk_ids), chunks)

RECURSIVE AppendFiles(_, _, _, _)
\* the loop over list(new_files)[:3]
AppendFiles(results, order, chunks, f2c) ==
    IF order = <<>> THEN results
    ELSE AppendFiles(
             IF Head(order) \in DOMAIN f2c
             THEN AppendChunks(results, Take(f2c[Head(order)], 2), chunks)
             ELSE results,
             Tail(order), chunks, f2c)

\* an expansion that puts the dependency-sourced entries ahead of the fused ones
ExpandWithDependenciesAhead(results, order, g, chunks, f2c) ==
    IF results = <<>> \/ ~g.present THEN results
    ELSE LET out == AppendFiles(results, order, chunks, f2c)
         IN  SubSeq(out, Len(results) + 1, Len(out)) \o results

\* HybridRetriever._expand_with_dependencies(results, top_k), new files taken in order
ExpandWithDependencies(results, order, g, chunks, f2c) ==
    IF results = <<>> \/ ~g.present THEN results
    ELSE AppendFiles(results, order, chunks, f2c)

-----------------------------------------------------------------------------
(* Rerankers *)

\* dict[key] = value on a result dict
Put(d, key, value) == [x \in DOMAIN d \cup {key} |-> IF x = key THEN value ELSE d[x]]

\* str.split()
SplitWhite(s) == Runs(s, Range(s) \ WhiteChars, <<>>)

EmptyDict == [x \in {} |-> <<>>]

\* a reranker that gives the name occurring in the query nothing
NameBoostNone(name_lower, query_lower) == 0

\* the +0.3 for a name that occurs in the query, in twentieths
NameBoost20(name_lower, query_lower) == IF Contains(name_lower, query_lower) THEN 6 ELSE 0

\* a boost that counts a query term of any length found in the content
Boost20AnyLength(query, result) ==
    LET query_lower == Lower(query)
        query_terms == Range(SplitWhite(query_lower))
        content_lower == Lower(Get(result, "content", <<>>))
        metadata == Get(result, "metadata", EmptyDict)
        name == Get(metadata, "name", <<>>)
        name_lower == Lower(name)
        chunk_type == Get(metadata, "chunk_type", "")
    IN  2 * Cardinality({t \in query_terms : Contains(t, content_lower)})
        + (IF Truthy(name) THEN NameBoost20(name_lower, query_lower) ELSE 0)
        + (IF Truthy(name)
           THEN 3 * Cardinality({t \in query_terms : Contains(t, name_lower)}) ELSE 0)
        + (IF chunk_type = "function" THEN 2 ELSE IF chunk_type = "class" THEN 1 ELSE 0)

\* the boost LightweightReranker.rerank adds to one result, in twentieths
Boost20(query, result) ==
    LET query_lower == Lower(query)
        query_terms == Range(SplitWhite(query_lower))
        content_lower == Lower(Get(result, "content", <<>>))
        metadata == Get(result, "metadata", EmptyDict)
        name == Get(metadata, "name", <<>>)
        name_lower == Lower(name)
        chunk_type == Get(metadata, "chunk_type", "")
    IN  2 * Cardinality({t \in query_terms : Len(t) > 2 /\ Contains(t, content_lower)})
        + (IF Truthy(name) THEN NameBoost20(name_lower, query_lower) ELSE 0)
        + (IF Truthy(name)
           THEN 3 * Cardinality({t \in query_terms : Contains(t, name_lower)}) ELSE 0)
        + (IF chunk_type = "function" THEN 2 ELSE IF chunk_type = "class" THEN 1 ELSE 0)

\* "if top_k:" then [:top_k]
TakeIfTruthy(xs, top_k) == IF top_k # NoneInt /\ top_k # 0 THEN Take(xs, top_k) ELSE xs

\* a score that is None
NoneScore == <<0, 0>>

\* result.get("score", 0), passed on as it is
OriginalScoreRaw(result) == Get(result, "score", Zero)

\* a heuristic reranker that keeps a None score as it is
OriginalScoreKeepNone(result) == Get(result, "score", Zero)

\* result.get("score", 0), then "if original_score is None: original_score = 0"
OriginalScore(result) ==
    LET original_score == Get(result, "score", Zero)
    IN  IF original_score = NoneScore THEN Zero ELSE original_score

\* LightweightReranker.rerank(query, results, top_k)
LightRerank(query, results, top_k) ==
    IF results = <<>> THEN <<>>
    ELSE LET scored == [i \in 1..Len(results) |->
                 LET original_score == OriginalScore(results[i])
                     rerank_score == RAdd(original_score, Rat(Boost20(query, results[i]), 20))
                 IN  Put(Put(results[i], "rerank_score", rerank_score),
                         "original_score", original_score)]
             reranked == TakeIfTruthy(
                             SortedDesc(scored,
                                 [i \in 1..Len(scored) |-> scored[i].rerank_score]),
                             top_k)
         IN  [i \in 1..Len(reranked) |-> Put(reranked[i], "score", reranked[i].rerank_score)]

\* CrossEncoderReranker.rerank(query, results, top_k), scores = model.predict(pairs)
CrossEncoderRerank(query, results, top_k, scores) ==
    IF results = <<>> THEN <<>>
    ELSE LET scored == [i \in 1..Len(results) |->
                 Put(Put(results[i], "cross_encoder_score", scores[i]),
                     "original_score", OriginalScoreRaw(results[i]))]
             reranked == TakeIfTruthy(
                             SortedDesc(scored,
                                 [i \in 1..Len(scored) |-> scored[i].cross_encoder_score]),
                             top_k)
         IN  [i \in 1..Len(reranked) |->
                 Put(reranked[i], "score", reranked[i].cross_encoder_score)]

-----------------------------------------------------------------------------
(* HybridRetriever.search *)

\* lines 83-94 of search() on the two stage lists: the lists it can return, more
\* than one only through the iteration order of new_files
CombineOutcomes(dense_results, bm25_results, g, chunks, f2c, top_k, use_dependencies) ==
    LET combined == ReciprocalRankFusion(dense_results, bm25_results)
    IN  IF dense_results = <<>> /\ bm25_results = <<>> THEN {<<>>}
        ELSE IF use_dependencies /\ g.present /\ combined # <<>>
        THEN {Take(ExpandWithDependencies(combined, order, g, chunks, f2c), top_k) :
                 order \in NewFileOrders(g, combined)}
        ELSE {Take(combined, top_k)}

\* The values search() can return on the retriever state (coll, st, g, chunks, f2c):
\* [raised, results]
SearchOutcomes(coll, st, g, chunks, f2c, query, top_k, use_hybrid, use_dependencies, filter) ==
    IF ~use_hybrid
    THEN {DenseSearch(coll, query, top_k, filter)}
    ELSE LET fetch_k == top_k * 3
             dense == DenseSearch(coll, query, fetch_k, filter)
             bm25_results == BM25Search(st, query, fetch_k)
         IN  IF dense.raised THEN {[raised |-> TRUE, results |-> <<>>]}
             ELSE {[raised |-> FALSE, results |-> results] :
                      results \in CombineOutcomes(dense.results, bm25_results, g, chunks,
                                                  f2c, top_k, use_dependencies)}

-----------------------------------------------------------------------------
(* The retriever as a state machine *)

Bm25State == [bm25 |-> bm25, chunks |-> bm25_chunks, tokenized_corpus |-> tokenized_corpus]

\* no call is in progress: the last query has returned to its caller
Idle == lastOp.op = "none"

\* a HybridRetriever after __init__
NewRetriever ==
    /\ collection = <<>>
    /\ bm25 = FALSE
    /\ bm25_chunks = <<>>
    /\ tokenized_corpus = <<>>
    /\ hr_chunks = <<>>
    /\ file_to_chunks = FileToChunks(<<>>)
    /\ graph_builder = NoBuilder
    /\ lastCall = [op |-> "none"]
    /\ lastOp = [op |-> "none"]
    /\ lastResult = <<>>

\* networkx is installed
RetrInit == NewRetriever /\ nx_available = TRUE

TokInit ==
    /\ tok_in = <<>>
    /\ tok_out = <<>>
    /\ id_words = <<>>
    /\ id_camel = <<>>
    /\ id_snake = <<>>

\* what index(chunks, files) assigns: the chunk list, the file-to-chunk map, the
\* two indexes, and the graph builder if files is given and not empty
IndexState(chunks, files) ==
    /\ hr_chunks' = chunks
    /\ file_to_chunks' = FileToChunks(chunks)
    /\ collection' = AddChunks(collection, chunks)
    /\ LET st == BM25Index(chunks, Bm25State)
       IN  /\ bm25' = st.bm25
           /\ bm25_chunks' = st.chunks
           /\ tokenized_corpus' = st.tokenized_corpus
    /\ graph_builder' = IF files # <<>> THEN BuildGraph(files, nx_available)
                        ELSE graph_builder
    /\ UNCHANGED <<nx_available, lastOp, lastResult, rerankVars, relVars, tokVars, fnVars, apiVars>>

\* HybridRetriever.index(chunks, files)
Index(chunks, files) ==
    /\ Idle
    /\ IndexState(chunks, files)
    /\ lastCall' = [op |-> "index",
                    repeated |-> lastCall.op = "index" /\ chunks = hr_chunks]

\* HybridRetriever.index(chunks): files is left at its default, None
IndexChunks(chunks) ==
    /\ Idle
    /\ IndexState(chunks, <<>>)
    /\ lastCall' = [op |-> "index_chunks"]

\* VectorStore.delete_collection(): the next access creates an empty collection
DeleteCollection ==
    /\ Idle
    /\ collection' = <<>>
    /\ lastCall' = [op |-> "delete_collection"]
    /\ UNCHANGED <<bm25, bm25_chunks, tokenized_corpus, hr_chunks, file_to_chunks,
                   graph_builder, nx_available, lastOp, lastResult,
                   rerankVars, relVars, tokVars, fnVars, apiVars>>

\* what a query leaves alone
indexVars == <<collection, bm25, bm25_chunks, tokenized_corpus, hr_chunks, file_to_chunks,
               graph_builder, nx_available, lastCall, rerankVars, relVars, tokVars, fnVars, apiVars>>

\* HybridRetriever.search(query, top_k, use_hybrid, use_dependencies, filter_dict)
Search(query, top_k, use_hybrid, use_dependencies, filter) ==
    /\ Idle
    /\ \E out \in SearchOutcomes(collection, Bm25State, graph_builder, hr_chunks,
                                 file_to_chunks, query, top_k, use_hybrid,
                                 use_dependencies, filter) :
          /\ lastResult' = out.results
          /\ lastOp' = [op |-> "search", query |-> query, top_k |-> top_k,
                        use_hybrid |-> use_hybrid, use_dependencies |-> use_dependencies,
                        filter |-> filter, raised |-> out.raised]
    /\ UNCHANGED indexVars

\* BM25Retriever.search(query, top_k)
Bm25Search(query, top_k) ==
    /\ Idle
    /\ lastResult' = BM25Search(Bm25State, query, top_k)
    /\ lastOp' = [op |-> "bm25_search", query |-> query, top_k |-> top_k]
    /\ UNCHANGED indexVars

\* the query returns: its caller takes the list, and the next call can start
Return ==
    /\ ~Idle
    /\ lastOp' = [op |-> "none"]
    /\ lastResult' = <<>>
    /\ UNCHANGED indexVars

\* use_dependencies has no effect without use_hybrid
SearchModes == {<<TRUE, TRUE>>, <<TRUE, FALSE>>, <<FALSE, TRUE>>}

\* the searches made: <<use_hybrid, use_dependencies, filter>>. The file filter is
\* given to the searches that fuse and expand
SearchCalls ==
    {<<mode[1], mode[2], NoFilter>> : mode \in SearchModes} \cup {<<TRUE, TRUE, PathA>>}

RerankInit ==
    /\ rr_search = [op |-> "none"]
    /\ rr_in = <<>>
    /\ rr_op = [op |-> "none"]
    /\ rr_out = <<>>

RelInit ==
    /\ rel_op = [op |-> "none"]
    /\ rel_out = {}

FnInit ==
    /\ fn_call = [op |-> "none"]
    /\ fn_out = <<>>

MaxThreads == 2       \* worker threads serving requests
MaxRetrievers == 2    \* /index requests served in one run

Threads == 1..MaxThreads

\* api.py at import: the global state, no retriever created, every worker free
ApiInit ==
    /\ api_state = [retriever |-> 0, indexed |-> FALSE]
    /\ api_retrievers = <<>>
    /\ api_threads = [t \in Threads |-> [pc |-> "free"]]

Init == RetrInit /\ RerankInit /\ RelInit /\ TokInit /\ FnInit /\ ApiInit

Next ==
    \/ \E chunks \in ChunkLists, files \in FileLists : Index(chunks, files)
    \/ DeleteCollection
    \/ \E query \in Queries, top_k \in TopKs, call \in SearchCalls :
          Search(query, top_k, call[1], call[2], call[3])
    \/ \E query \in Queries, top_k \in TopKs : Bm25Search(query, top_k)
    \/ Return

Spec == Init /\ [][Next]_vars

-----------------------------------------------------------------------------
(* Properties of the retriever *)

HasTokens(chunk) == Tokenize(chunk.content) # <<>>

\* the identities the Dense index holds
DenseIds == CollectionIds(collection)

\* the identities the Lexical index holds: none while bm25 is None
LexicalIds == IF bm25 THEN Ids(bm25_chunks) ELSE {}

\* the identities of the chunks of a list that have a token
TokenIds(chunks) == {chunks[i].chunk_id : i \in {j \in 1..Len(chunks) : HasTokens(chunks[j])}}

\* C1: after index(chunks, files) the Dense index, the Lexical index and the chunk
\* and file-to-chunk maps hold exactly the chunks of that call (the Lexical index
\* those with a token): a later call rebuilds, it does not merge
C1_IndexRebuilds ==
    lastCall.op = "index" =>
        /\ DenseIds = Ids(hr_chunks)
        /\ LexicalIds = TokenIds(hr_chunks)
        /\ file_to_chunks = FileToChunks(hr_chunks)

\* C3: in every state reached by index and delete_collection calls the Dense and
\* the Lexical index hold the same identities, but for the chunks without a token,
\* which only the Lexical index lacks
C3_DenseAndLexicalAgree ==
    /\ LexicalIds \subseteq DenseIds
    /\ \A c \in ChunkPool : c.chunk_id \in DenseIds \ LexicalIds => ~HasTokens(c)

\* C9: after index() with an empty list or with chunks that all have no token,
\* BM25Retriever.search returns [] whatever was indexed before; and a search whose
\* query has no token returns []
C9_EmptyIndexFindsNothing ==
    lastOp.op = "bm25_search" =>
        /\ (lastCall.op = "index" /\ TokenIds(hr_chunks) = {}) => lastResult = <<>>
        /\ Tokenize(lastOp.query) = <<>> => lastResult = <<>>

\* the BM25 score of chunk i of the Lexical index for the query of the last search
LexicalScore(i) == BM25Score(Tokens[lastOp.query], tokenized_corpus, i)

\* the indices of the chunks with a strictly positive score
Positive == IF bm25 THEN {i \in 1..Len(bm25_chunks) : RLess(Zero, LexicalScore(i))} ELSE {}

\* chunk i ranks before chunk j: a higher score, or the same score and indexed first
RanksBefore(i, j) ==
    \/ RLess(LexicalScore(j), LexicalScore(i))
    \/ REq(LexicalScore(i), LexicalScore(j)) /\ i < j

\* C10: BM25Retriever.search(query, top_k) returns the chunks with a strictly
\* positive score that rank highest, at most top_k of them, by score descending
\* and ties in index order; a chunk with score 0 or less is never returned
C10_Bm25TopPositive ==
    lastOp.op = "bm25_search" =>
        \E idx \in [1..Len(lastResult) -> Positive] :
            /\ \A j \in 1..Len(lastResult) :
                   lastResult[j] = BM25Entry(bm25_chunks[idx[j]], LexicalScore(idx[j]))
            /\ \A j \in 1..(Len(lastResult) - 1) : RanksBefore(idx[j], idx[j + 1])
            /\ \A i \in Positive \ Range(idx) :
                   /\ Len(lastResult) = lastOp.top_k
                   /\ \A j \in 1..Len(lastResult) : RanksBefore(idx[j], i)
            /\ Len(lastResult) <= lastOp.top_k

\* a search returned fewer than top_k chunks, leaving out a chunk of score 0
C10_ShortList ==
    /\ lastOp.op = "bm25_search"
    /\ lastResult # <<>>
    /\ Len(lastResult) < lastOp.top_k
    /\ \E i \in 1..Len(bm25_chunks) : REq(LexicalScore(i), Zero)

\* a hybrid search has returned lastResult
HybridReturned == lastOp.op = "search" /\ lastOp.use_hybrid /\ ~lastOp.raised

FromDependency(result) == "from_dependency" \in DOMAIN result

\* what every search returns on the retriever state (coll, st, g, chunks, f2c)
AllSearches(coll, st, g, chunks, f2c) ==
    [query \in Queries, top_k \in TopKs, call \in SearchCalls |->
        SearchOutcomes(coll, st, g, chunks, f2c, query, top_k, call[1], call[2], call[3])]

\* what every BM25Retriever.search returns on the state st
AllBm25Searches(st) ==
    [query \in Queries, top_k \in TopKs |-> BM25Search(st, query, top_k)]

\* C2: an index() call with the chunk list of the index() call just before it
\* leaves every search, for every query, top_k, mode and filter, with the results
\* (identities and scores) it had after the first call, and adds no record twice
C2_SecondIndexChangesNothing ==
    [][(Idle /\ Idle' /\ lastCall'.op = "index" /\ lastCall'.repeated) =>
          /\ \/ <<collection, Bm25State, file_to_chunks>>'
                   = <<collection, Bm25State, file_to_chunks>>
             \/ /\ AllSearches(collection', Bm25State', graph_builder, hr_chunks',
                                file_to_chunks')
                      = AllSearches(collection, Bm25State, graph_builder, hr_chunks,
                                    file_to_chunks)
                /\ AllBm25Searches(Bm25State') = AllBm25Searches(Bm25State)
          /\ Len(collection') = Cardinality(CollectionIds(collection'))]_vars

\* after the second of two index() calls with one chunk list, the Dense index
\* holding the chunks of that list only, a hybrid search has found two of them
C2_IndexedTwice ==
    /\ lastCall.op = "index"
    /\ lastCall.repeated
    /\ DenseIds = Ids(hr_chunks)
    /\ LexicalIds # {}
    /\ HybridReturned
    /\ Len(lastResult) >= 2

\* C5: the list a hybrid search returns is sorted by score descending, the entries
\* the dependency expansion appended included
C5_HybridSortedByScore ==
    HybridReturned =>
        \A i \in 1..(Len(lastResult) - 1) :
            RLeq(lastResult[i + 1].score, lastResult[i].score)

\* C6: in the list a hybrid search returns, the score of a dependency-sourced
\* entry is strictly lower than the fused score of every organic entry
C6_DependencyBelowOrganic ==
    HybridReturned =>
        \A i, j \in 1..Len(lastResult) :
            (FromDependency(lastResult[i]) /\ ~FromDependency(lastResult[j])) =>
                RLess(lastResult[i].score, lastResult[j].score)

\* the stage lists of the hybrid search that has just returned, and their fusion
StageDense == DenseSearch(collection, lastOp.query, lastOp.top_k * 3, lastOp.filter).results

StageBm25 == BM25Search(Bm25State, lastOp.query, lastOp.top_k * 3)

\* C11: the list _reciprocal_rank_fusion produces holds exactly the chunk ids of
\* the dense list and of the lexical list, each once; and in what search returns,
\* an entry whose chunk id is in neither list is tagged from_dependency
C11_FusionMergesByIdentity ==
    HybridReturned =>
        LET dense == StageDense
            lexical == StageBm25
            fused == ReciprocalRankFusion(dense, lexical)
            found == Ids(dense) \cup Ids(lexical)
        IN  /\ Ids(fused) = found
            /\ Len(fused) = Cardinality(found)
            /\ \A i \in 1..Len(lastResult) :
                   lastResult[i].chunk_id \notin found => FromDependency(lastResult[i])

\* a hybrid search returned a chunk found by both stages, merged into one entry,
\* followed by a dependency-sourced chunk that neither stage found
C11_MergedAndExpanded ==
    /\ HybridReturned
    /\ \E i \in 1..Len(lastResult) :
           /\ lastResult[i].chunk_id \in Ids(StageDense) \cap Ids(StageBm25)
           /\ ~FromDependency(lastResult[i])
    /\ \E i \in 1..Len(lastResult) :
           /\ FromDependency(lastResult[i])
           /\ lastResult[i].chunk_id \notin Ids(StageDense) \cup Ids(StageBm25)

\* the files whose chunks are in the list index() was last given
IndexedFiles == {hr_chunks[i].file_path : i \in 1..Len(hr_chunks)}

\* the query shares a token with the content of the chunk
QueryMatches(query, chunk) == Range(Tokens[query]) \cap Range(Tokens[chunk.content]) # {}

\* a.py imports b.py, b.py imports c.py and nothing imports a.py
ImportChain ==
    /\ graph_builder.present
    /\ graph_builder.has_graph
    /\ graph_builder.edges = {<<PathA, PathB>>, <<PathB, PathC>>}

\* chunks of a.py, b.py and c.py are indexed in both stages, and the query of the
\* hybrid search that has just returned matches chunks of a.py and of no other file
ChainIndexedQueryMatchesA ==
    /\ HybridReturned
    /\ lastOp.use_dependencies
    /\ lastOp.filter = NoFilter
    /\ ImportChain
    /\ IndexedFiles = {PathA, PathB, PathC}
    /\ DenseIds = Ids(hr_chunks)
    /\ \E i \in 1..Len(hr_chunks) : QueryMatches(lastOp.query, hr_chunks[i])
    /\ \A i \in 1..Len(hr_chunks) :
           QueryMatches(lastOp.query, hr_chunks[i]) => hr_chunks[i].file_path = PathA

\* C12: with a.py importing b.py importing c.py, all indexed with their graph, a
\* search with use_dependencies whose query matches only chunks of a.py returns a
\* chunk of b.py appended with score 0.1 and the from_dependency tag, and no chunk
\* of c.py
C12_DirectDependencyAppended ==
    ChainIndexedQueryMatchesA =>
        /\ \E i \in 1..Len(lastResult) :
               /\ lastResult[i].metadata.file_path = PathB
               /\ FromDependency(lastResult[i])
               /\ REq(lastResult[i].score, DependencyScore)
        /\ \A i \in 1..Len(lastResult) : lastResult[i].metadata.file_path # PathC

-----------------------------------------------------------------------------
(* _tokenize as a function of its text *)

MaxText == 3        \* longest text passed to _tokenize
MaxWords == 3       \* most words in an identifier

TextChars == {"a", "b", "B", "_", "1", " "}

Texts == UNION { [1..n -> TextChars] : n \in 0..MaxText }

Words == { <<"g","e","t">>, <<"u","s","e","r">>, <<"n","a","m","e">> }

Identifiers == UNION { [1..n -> Words] : n \in 1..MaxWords }

\* str.capitalize() of a lower-case word
Capitalize(w) == [i \in 1..Len(w) |-> IF i = 1 THEN UpperChar(w[i]) ELSE w[i]]

\* the camelCase spelling: getUserName
CamelCase(words) ==
    Concat([i \in 1..Len(words) |-> IF i = 1 THEN words[i] ELSE Capitalize(words[i])])

\* the snake_case spelling: get_user_name
SnakeCase(words) == JoinWith(<<"_">>, words)

\* retriever._tokenize(text)
TokenizeText(text) ==
    /\ tok_in' = text
    /\ tok_out' = Tokenize(text)
    /\ id_words' = <<>>
    /\ id_camel' = <<>>
    /\ id_snake' = <<>>
    /\ UNCHANGED <<retrVars, rerankVars, relVars, fnVars, apiVars>>

\* retriever._tokenize of the two spellings of one identifier (test_bm25_tokenization)
TokenizeIdentifier(words) ==
    /\ id_words' = words
    /\ id_camel' = Tokenize(CamelCase(words))
    /\ id_snake' = Tokenize(SnakeCase(words))
    /\ tok_in' = <<>>
    /\ tok_out' = <<>>
    /\ UNCHANGED <<retrVars, rerankVars, relVars, fnVars, apiVars>>

TokNext ==
    \/ \E text \in Texts : TokenizeText(text)
    \/ \E words \in Identifiers : TokenizeIdentifier(words)

SpecTok == Init /\ [][TokNext]_vars

\* C4: for every identifier made of lower-case words, _tokenize of the camelCase
\* spelling and _tokenize of the snake_case spelling yield the same token set, the
\* set of the identifier's words (getUserName, get_user_name: {get, user, name})
C4_CamelAndSnakeSameTokens ==
    id_words # <<>> =>
        /\ Range(id_camel) = Range(id_words)
        /\ Range(id_snake) = Range(id_words)

-----------------------------------------------------------------------------
(* DependencyGraphBuilder as a state machine *)

MaxDepth == 2       \* largest depth passed to get_related_files

\* networkx is installed or not
GraphInit ==
    /\ NewRetriever
    /\ nx_available \in BOOLEAN
    /\ RerankInit /\ RelInit /\ TokInit /\ FnInit /\ ApiInit

\* HybridRetriever._build_dependency_graph(files); the set an earlier
\* get_related_files returned has been consumed by then
BuildDependencyGraph(files) ==
    /\ graph_builder' = BuildGraph(files, nx_available)
    /\ rel_op' = [op |-> "none"]
    /\ rel_out' = {}
    /\ UNCHANGED <<collection, bm25, bm25_chunks, tokenized_corpus, hr_chunks,
                   file_to_chunks, nx_available, lastCall, lastOp, lastResult,
                   rerankVars, tokVars, fnVars, apiVars>>

\* self._graph_builder.get_related_files(file_path, depth)
GetRelated(file_path, depth) ==
    /\ graph_builder.present
    /\ rel_op' = [op |-> "get_related_files", file_path |-> file_path, depth |-> depth]
    /\ rel_out' = GetRelatedFiles(graph_builder, file_path, depth)
    /\ UNCHANGED <<retrVars, rerankVars, tokVars, fnVars, apiVars>>

GraphNext ==
    \/ \E files \in GraphFileLists : BuildDependencyGraph(files)
    \/ \E i \in 1..Len(FileSeq), depth \in 0..MaxDepth : GetRelated(FileSeq[i].path, depth)


SpecGraph == GraphInit /\ [][GraphNext]_vars

\* files one import edge away from a file of S, the edge taken in either direction
Adjacent(g, S) ==
    {e[2] : e \in {d \in g.edges : d[1] \in S}} \cup {e[1] : e \in {d \in g.edges : d[2] \in S}}

RECURSIVE WithinHops(_, _, _)
\* files at most depth hops away from a file of S
WithinHops(g, S, depth) ==
    IF depth = 0 THEN S ELSE WithinHops(g, S \cup Adjacent(g, S), depth - 1)

\* C7: get_related_files(file, depth) returns exactly the files reachable from file
\* in at most depth hops over import edges taken in either direction, file excluded
C7_RelatedIsWithinDepthHops ==
    (rel_op.op = "get_related_files" /\ graph_builder.has_graph) =>
        rel_out = WithinHops(graph_builder, {rel_op.file_path} \cap graph_builder.nodes,
                             rel_op.depth) \ {rel_op.file_path}

-----------------------------------------------------------------------------
(* The rerankers on the lists search() returns *)

\* cross-encoder scores model.predict can give a pair
CEScores == {<<0, 1>>, <<1, 2>>}

TopKsOrNone == {NoneInt} \cup TopKs

EmptyBm25 == [bm25 |-> FALSE, chunks |-> <<>>, tokenized_corpus |-> <<>>]

\* retriever.index(chunks, files) on a new retriever, then
\* retriever.search(query, top_k, use_hybrid, use_dependencies, filter)
Retrieve(chunks, files, query, top_k, use_hybrid, use_dependencies, filter) ==
    /\ rr_search.op = "none"
    /\ \E out \in SearchOutcomes(AddChunks(<<>>, chunks), BM25Index(chunks, EmptyBm25),
                                 BuildGraph(files, TRUE), chunks, FileToChunks(chunks),
                                 query, top_k, use_hybrid, use_dependencies, filter) :
          /\ rr_in' = out.results
          /\ rr_search' = [op |-> "search", query |-> query, top_k |-> top_k,
                           use_hybrid |-> use_hybrid, raised |-> out.raised]
    /\ UNCHANGED <<rr_op, rr_out, retrVars, relVars, tokVars, fnVars, apiVars>>

CanRerank == rr_search.op = "search" /\ ~rr_search.raised /\ rr_op.op = "none"

\* LightweightReranker.rerank(query, results, top_k) on the list just retrieved
RerankLight(top_k) ==
    /\ CanRerank
    /\ rr_op' = [op |-> "rerank", top_k |-> top_k]
    /\ rr_out' = LightRerank(rr_search.query, rr_in, top_k)
    /\ UNCHANGED <<rr_search, rr_in, retrVars, relVars, tokVars, fnVars, apiVars>>

\* CrossEncoderReranker.rerank(query, results, top_k), the model predicting scores
RerankCrossEncoder(top_k, scores) ==
    /\ CanRerank
    /\ rr_op' = [op |-> "cross_encoder_rerank", top_k |-> top_k]
    /\ rr_out' = CrossEncoderRerank(rr_search.query, rr_in, top_k, scores)
    /\ UNCHANGED <<rr_search, rr_in, retrVars, relVars, tokVars, fnVars, apiVars>>

\* the caller is done with the lists; the next query starts
RerankReturn ==
    /\ rr_search.op # "none"
    /\ rr_search' = [op |-> "none"]
    /\ rr_in' = <<>>
    /\ rr_op' = [op |-> "none"]
    /\ rr_out' = <<>>
    /\ UNCHANGED <<retrVars, relVars, tokVars, fnVars, apiVars>>

RerankNext ==
    \/ \E chunks \in ChunkLists, query \in Queries, top_k \in TopKs, call \in SearchCalls :
          Retrieve(chunks, <<FileA, FileB, FileC>>, query, top_k, call[1], call[2], call[3])
    \/ \E top_k \in TopKsOrNone : RerankLight(top_k)
    \/ \E top_k \in TopKsOrNone, scores \in [1..Len(rr_in) -> CEScores] :
          RerankCrossEncoder(top_k, scores)
    \/ RerankReturn

SpecRerank == Init /\ [][RerankNext]_vars

\* C8: for every integer top_k >= 0 passed to it, HybridRetriever.search,
\* LightweightReranker.rerank and CrossEncoderReranker.rerank each return a list
\* of at most top_k entries
C8_AtMostTopK ==
    /\ (rr_search.op = "search" /\ ~rr_search.raised) => Len(rr_in) <= rr_search.top_k
    /\ (rr_op.op \in {"rerank", "cross_encoder_rerank"} /\ rr_op.top_k >= 0) =>
           Len(rr_out) <= rr_op.top_k

-----------------------------------------------------------------------------
(* index() with an embedding provider that can fail *)

\* the batches add_chunks cuts the list into
BatchCount(chunks) == (Len(chunks) + BatchSize - 1) \div BatchSize

\* HybridRetriever.index(chunks, files) when embed_documents raises on the batch
\* failed_batch of add_chunks: the chunk map and the file-to-chunk map are
\* assigned before add_chunks, the batches before the failing one are in the
\* collection, and the exception leaves index() before the BM25 and graph steps
IndexFails(chunks, files, failed_batch) ==
    /\ Idle
    /\ hr_chunks' = chunks
    /\ file_to_chunks' = FileToChunks(chunks)
    /\ collection' = AddChunks(collection, Take(chunks, (failed_batch - 1) * BatchSize))
    /\ lastCall' = [op |-> "index_failed"]
    /\ UNCHANGED <<bm25, bm25_chunks, tokenized_corpus, graph_builder, nx_available,
                   lastOp, lastResult, rerankVars, relVars, tokVars, fnVars, apiVars>>

IndexNext ==
    \/ \E chunks \in ChunkLists, files \in FileLists : Index(chunks, files)
    \/ \E chunks \in ChunkLists, files \in FileLists :
           \E failed_batch \in 1..BatchCount(chunks) : IndexFails(chunks, files, failed_batch)
    \/ DeleteCollection

SpecIndex == Init /\ [][IndexNext]_vars

\* the chunk ids the file-to-chunk map lists
FileMapIds == UNION {Range(file_to_chunks[p]) : p \in DOMAIN file_to_chunks}

\* the chunk map and the file-to-chunk map describe the chunk set Dense holds, and
\* Lexical holds no chunk Dense does not
DescribeDense ==
    /\ Ids(hr_chunks) = DenseIds
    /\ FileMapIds = DenseIds
    /\ LexicalIds \subseteq DenseIds

\* C13: an index() call that fails in the embedding provider leaves no partial
\* index state: Dense holds no batch of the failed call, and the chunk map, the
\* file-to-chunk map and Lexical, which described the chunk set of Dense before
\* the call, still describe it
C13_FailedIndexLeavesNoPartialState ==
    [][(lastCall'.op = "index_failed" /\ DescribeDense) =>
          /\ collection' = collection
          /\ DescribeDense']_vars

-----------------------------------------------------------------------------
(* src/api.py: /index and /query served by worker threads on the global state *)

\* api_state is the module-level dict "state" (retriever: 0 is None, else the
\* position of the object in api_retrievers); api_retrievers holds how far the
\* index() call of each HybridRetriever object has come; api_threads holds the line
\* each worker is about to run

At(t, pc) == api_threads[t].pc = pc

Goto(t, rec) == api_threads' = [api_threads EXCEPT ![t] = rec]

apiFrame == <<retrVars, rerankVars, relVars, tokVars, fnVars>>

\* /index requests that will still create a retriever
Pending == Cardinality({t \in Threads : At(t, "index_63")})

\* a worker takes a POST /index; clone_repo and chunk_files (lines 57-61) succeed
StartIndex(t) ==
    /\ At(t, "free")
    /\ Len(api_retrievers) + Pending < MaxRetrievers
    /\ Goto(t, [pc |-> "index_63"])
    /\ UNCHANGED <<api_state, api_retrievers, apiFrame>>

\* lines 63-65: state["retriever"] = HybridRetriever()
IndexAssign(t) ==
    /\ At(t, "index_63")
    /\ api_retrievers' = Append(api_retrievers, "new")
    /\ api_state' = [api_state EXCEPT !.retriever = Len(api_retrievers) + 1]
    /\ Goto(t, [pc |-> "index_66"])
    /\ UNCHANGED apiFrame

\* line 66: state["retriever"] is read and index(chunks, files) entered on it
IndexBegin(t) ==
    /\ At(t, "index_66")
    /\ api_retrievers' = [api_retrievers EXCEPT ![api_state.retriever] = "indexing"]
    /\ Goto(t, [pc |-> "index_running", retriever |-> api_state.retriever])
    /\ UNCHANGED <<api_state, apiFrame>>

\* index(chunks, files) returns
IndexEnd(t) ==
    /\ At(t, "index_running")
    /\ api_retrievers' = [api_retrievers EXCEPT ![api_threads[t].retriever] = "indexed"]
    /\ Goto(t, [pc |-> "index_68"])
    /\ UNCHANGED <<api_state, apiFrame>>

\* index(chunks, files) raises: lines 75-76 answer 500, the state keeps the retriever
IndexRaises(t) ==
    /\ At(t, "index_running")
    /\ api_retrievers' = [api_retrievers EXCEPT ![api_threads[t].retriever] = "failed"]
    /\ Goto(t, [pc |-> "free"])
    /\ UNCHANGED <<api_state, apiFrame>>

\* lines 67-74: state["indexed"] = True, the response is returned
SetIndexed(t) ==
    /\ At(t, "index_68")
    /\ api_state' = [api_state EXCEPT !.indexed = TRUE]
    /\ Goto(t, [pc |-> "free"])
    /\ UNCHANGED <<api_retrievers, apiFrame>>

\* a worker takes a POST /query
StartQuery(t) ==
    /\ At(t, "free")
    /\ Goto(t, [pc |-> "query_82"])
    /\ UNCHANGED <<api_state, api_retrievers, apiFrame>>

\* lines 82-83: if not state["indexed"]: 400
QueryCheck(t) ==
    /\ At(t, "query_82")
    /\ Goto(t, [pc |-> IF api_state.indexed THEN "query_87" ELSE "free"])
    /\ UNCHANGED <<api_state, api_retrievers, apiFrame>>

\* line 87: state["retriever"] is read and search entered on it; the worker
\* keeps how far the index() of that retriever had come
QuerySearch(t) ==
    /\ At(t, "query_87")
    /\ Goto(t, [pc |-> "query_88", retriever |-> api_state.retriever,
                searched |-> api_retrievers[api_state.retriever]])
    /\ UNCHANGED <<api_state, api_retrievers, apiFrame>>

\* lines 88-103: rerank, generate, the response is returned
QueryReturn(t) ==
    /\ At(t, "query_88")
    /\ Goto(t, [pc |-> "free"])
    /\ UNCHANGED <<api_state, api_retrievers, apiFrame>>

ApiNext ==
    \/ \E t \in Threads : StartIndex(t)
    \/ \E t \in Threads : IndexAssign(t)
    \/ \E t \in Threads : IndexBegin(t)
    \/ \E t \in Threads : IndexEnd(t)
    \/ \E t \in Threads : IndexRaises(t)
    \/ \E t \in Threads : SetIndexed(t)
    \/ \E t \in Threads : StartQuery(t)
    \/ \E t \in Threads : QueryCheck(t)
    \/ \E t \in Threads : QuerySearch(t)
    \/ \E t \in Threads : QueryReturn(t)

SpecApi == Init /\ [][ApiNext]_vars

\* C14: /index and /query running in parallel are serialized: a /query admitted
\* because state["indexed"] is true never runs search on a retriever whose index()
\* has not completed
C14_QuerySearchesIndexedRetriever ==
    \A t \in Threads : At(t, "query_88") => api_threads[t].searched = "indexed"

-----------------------------------------------------------------------------
(* The rerankers as functions of the query and the candidate list *)

MaxCands == 2       \* longest candidate list passed to rerank

RankQueries == { <<>>, <<"a","b","c">>, <<"a","b","c"," ","D","E">> }

RankNames == { <<>>, <<"a","b","c">>, <<"A","b","c"," ","d","e">>, <<"x">> }

RankContents == { <<"a","b","c"," ","x">> }

RankTypes == { "function", "module" }

\* the entry holds no "score" key
MissingScore == <<0, -1>>

RankScores == { MissingScore, NoneScore, <<1, 2>> }

\* a result dict as the retrievers build it
Candidate(name, content, type, score) ==
    LET result == [chunk_id |-> "k", content |-> content,
                   metadata |-> [name |-> name, chunk_type |-> type]]
    IN  IF score = MissingScore THEN result ELSE Put(result, "score", score)

\* candidate lists that differ in name and base score only
CandidateLists(Names) ==
    UNION { { [i \in 1..n |-> Candidate(names[i], content, type, scores[i])] :
                names \in [1..n -> Names], scores \in [1..n -> RankScores],
                content \in RankContents, type \in RankTypes } : n \in 0..MaxCands }

\* the lists the heuristic reranker is given, and those the cross-encoder is
\* given, which never reads a name
LightLists == CandidateLists(RankNames)

CrossLists == CandidateLists({<<"x">>})

\* no reranker call is waiting for its caller
FnIdle == fn_call.op = "none"

\* LightweightReranker().rerank(query, results, top_k)
CallLightRerank ==
    /\ FnIdle
    /\ \E query \in RankQueries, results \in LightLists, top_k \in TopKsOrNone :
          /\ fn_call' = [op |-> "rerank", query |-> query, results |-> results,
                         top_k |-> top_k]
          /\ fn_out' = LightRerank(query, results, top_k)
    /\ UNCHANGED <<retrVars, rerankVars, relVars, tokVars, apiVars>>

\* CrossEncoderReranker().rerank(query, results, top_k), the model predicting scores
CallCrossEncoderRerank ==
    /\ FnIdle
    /\ \E query \in RankQueries, results \in CrossLists, top_k \in TopKsOrNone :
          \E scores \in [1..Len(results) -> CEScores] :
              /\ fn_call' = [op |-> "cross_encoder_rerank", query |-> query,
                             results |-> results, top_k |-> top_k, scores |-> scores]
              /\ fn_out' = CrossEncoderRerank(query, results, top_k, scores)
    /\ UNCHANGED <<retrVars, rerankVars, relVars, tokVars, apiVars>>

\* the caller is done with the list
FnReturn ==
    /\ ~FnIdle
    /\ fn_call' = [op |-> "none"]
    /\ fn_out' = <<>>
    /\ UNCHANGED <<retrVars, rerankVars, relVars, tokVars, apiVars>>

RankNext ==
    \/ CallLightRerank
    \/ CallCrossEncoderRerank
    \/ FnReturn

SpecRank == Init /\ [][RankNext]_vars

Name(result) == result.metadata.name

\* the candidates i and j of the list are the same but for their name
SameButName(results, i, j) ==
    /\ Put(results[i], "metadata", EmptyDict) = Put(results[j], "metadata", EmptyDict)
    /\ results[i].metadata.chunk_type = results[j].metadata.chunk_type
    /\ Name(results[i]) # Name(results[j])

\* the lower-cased name of candidate i is the lower-cased query and the name of
\* candidate j does not occur in the query
ExactAgainstNoMatch(i, j) ==
    /\ fn_call.op = "rerank"
    /\ {i, j} \subseteq 1..Len(fn_call.results)
    /\ SameButName(fn_call.results, i, j)
    /\ Lower(Name(fn_call.results[i])) = Lower(fn_call.query)
    /\ ~Contains(Lower(Name(fn_call.results[j])), Lower(fn_call.query))

\* the score an entry had before the call: a missing score counts as 0, and the
\* heuristic reranker counts None as 0 too
PriorScore(entry) ==
    IF "score" \notin DOMAIN entry THEN Zero
    ELSE IF fn_call.op = "rerank" /\ entry.score = NoneScore THEN Zero
    ELSE entry.score

\* the positions in the returned list of the candidate i of the call: the entries
\* with its name and its base score
Returned(i) ==
    {p \in 1..Len(fn_out) :
        /\ Name(fn_out[p]) = Name(fn_call.results[i])
        /\ fn_out[p].original_score = PriorScore(fn_call.results[i])}

\* the candidate i scores strictly higher than the candidate j, as far as the
\* returned list holds them, and j is not returned without i
ScoresHigher(i, j) ==
    /\ \A p \in Returned(i), q \in Returned(j) : RLess(fn_out[q].score, fn_out[p].score)
    /\ Returned(j) # {} => Returned(i) # {}

\* C15 as stated: of two candidates that differ in name only, the one whose
\* lower-cased name equals the lower-cased query is scored strictly higher by
\* LightweightReranker.rerank than the one whose name does not occur in the query
C15_ExactNameScoresHigher ==
    \A i, j \in 1..MaxCands :
        ExactAgainstNoMatch(i, j) =>
            ScoresHigher(i, j)

\* C15 amended: the same, for a candidate whose name is not the empty string
C15_ExactNonEmptyNameScoresHigher ==
    \A i, j \in 1..MaxCands :
        (ExactAgainstNoMatch(i, j) /\ Name(fn_call.results[i]) # <<>>) =>
            ScoresHigher(i, j)

\* rerank returned both a candidate named as the query and an otherwise equal one
\* whose name holds a query term without occurring in the query
C15_BothReturned ==
    \E i, j \in 1..MaxCands :
        /\ ExactAgainstNoMatch(i, j)
        /\ Name(fn_call.results[i]) # <<>>
        /\ Returned(i) # {}
        /\ Returned(j) # {}
        /\ \E t \in Range(SplitWhite(Lower(fn_call.query))) :
               Contains(t, Lower(Name(fn_call.results[j])))

\* the returned entry is the given one with its prior score kept under
\* original_score and the new score new under score and under key
Rescored(returned, given, key, new) ==
    /\ returned = Put(Put(Put(given, key, new), "original_score", PriorScore(given)),
                      "score", new)
    /\ returned.original_score = PriorScore(given)
    /\ returned.score = new

\* the returned entry p is the entry i of the call, rescored by the reranker called
RescoredFrom(p, i) ==
    IF fn_call.op = "rerank"
    THEN Rescored(fn_out[p], fn_call.results[i], "rerank_score",
                  RAdd(PriorScore(fn_call.results[i]),
                       Rat(Boost20(fn_call.query, fn_call.results[i]), 20)))
    ELSE Rescored(fn_out[p], fn_call.results[i], "cross_encoder_score", fn_call.scores[i])

\* C16: every entry either reranker returns is an entry of the list it was given,
\* each given entry returned at most once, with original_score the score the entry
\* had before the call (missing counted as 0, None too by the heuristic reranker)
\* and score the new rerank score; on an empty list both return []
C16_OriginalScoreKept ==
    ~FnIdle =>
        /\ \E from \in [1..Len(fn_out) -> 1..Len(fn_call.results)] :
               /\ \A p, q \in 1..Len(fn_out) : from[p] = from[q] => p = q
               /\ \A p \in 1..Len(fn_out) : RescoredFrom(p, from[p])
        /\ fn_call.results = <<>> => fn_out = <<>>

\* the heuristic reranker returned two entries in an order other than the given
\* one, the first of which had the score None before the call
C16_NoneScoreReordered ==
    /\ fn_call.op = "rerank"
    /\ Len(fn_out) = 2
    /\ RescoredFrom(1, 2)
    /\ RescoredFrom(2, 1)
    /\ "score" \in DOMAIN fn_call.results[2]
    /\ fn_call.results[2].score = NoneScore
    /\ fn_out[1].original_score = Zero
    /\ RLess(Zero, fn_out[1].score)

-----------------------------------------------------------------------------
(* The retriever and its graph builder without networkx or without Python files *)

\* networkx is installed or not
NullInit ==
    /\ NewRetriever
    /\ nx_available \in BOOLEAN
    /\ RerankInit /\ RelInit /\ TokInit /\ FnInit /\ ApiInit

\* no chunk, a chunk of a.py, and a chunk of each of a.py, b.py and c.py
NullChunkLists ==
    { SelectSeq(PoolSeq, LAMBDA c : c.chunk_id \in S) : S \in {{}, {"k1"}, {"k1", "k2", "k4"}} }

\* no files given, a README only, and the three Python files
NullFileLists == { <<>>, <<FileR>>, <<FileA, FileB, FileC>> }

GraphPaths == {FileSeq[i].path : i \in 1..Len(FileSeq)}

\* the six query methods of the builder the retriever holds, called for one path
QueryGraph(file_path) ==
    /\ Idle
    /\ graph_builder.present
    /\ lastOp' = [op |-> "graph_queries", file_path |-> file_path]
    /\ lastResult' =
          [get_dependencies |-> GetDependencies(graph_builder, file_path),
           get_dependents |-> GetDependents(graph_builder, file_path),
           get_related_files |-> GetRelatedFiles(graph_builder, file_path, 2),
           get_most_connected_files |-> GetMostConnectedFiles(graph_builder, 10),
           get_entry_points |-> GetEntryPoints(graph_builder),
           get_core_modules |-> GetCoreModules(graph_builder)]
    /\ UNCHANGED indexVars

NullNext ==
    \/ \E chunks \in NullChunkLists, files \in NullFileLists : Index(chunks, files)
    \/ \E query \in Queries, top_k \in TopKs, call \in SearchCalls :
           Search(query, top_k, call[1], call[2], call[3])
    \/ \E file_path \in GraphPaths : QueryGraph(file_path)
    \/ Return

SpecNull == NullInit /\ [][NullNext]_vars

\* networkx is missing, or the graph was built from files none of which is a
\* Python file, or no graph was built
NullGraph == ~nx_available \/ graph_builder.nodes = {}

\* C17: without the graph library or without a Python file among the files,
\* get_dependencies, get_dependents, get_related_files, get_most_connected_files,
\* get_entry_points and get_core_modules return an empty result for every path,
\* and search returns the first top_k entries of the fused list, none of them
\* dependency-sourced
C17_NullGraphAnswersEmpty ==
    NullGraph =>
        /\ lastOp.op = "graph_queries" =>
               /\ lastResult.get_dependencies = {}
               /\ lastResult.get_dependents = {}
               /\ lastResult.get_related_files = {}
               /\ lastResult.get_most_connected_files = <<>>
               /\ lastResult.get_entry_points = <<>>
               /\ lastResult.get_core_modules = <<>>
        /\ HybridReturned =>
               /\ lastResult = Take(ReciprocalRankFusion(StageDense, StageBm25), lastOp.top_k)
               /\ \A i \in 1..Len(lastResult) : ~FromDependency(lastResult[i])

\* the six methods were called on a builder whose graph, built with networkx from
\* a README only, has no node, the retriever holding chunks of three files
C17_QueriedEmptyGraph ==
    /\ lastOp.op = "graph_queries"
    /\ nx_available
    /\ graph_builder.has_graph
    /\ graph_builder.nodes = {}
    /\ IndexedFiles = {PathA, PathB, PathC}

-----------------------------------------------------------------------------
(* The login scenario: two chunks indexed, searched and reranked *)

LoginTopK == 5      \* top_k of the scenario, the default of a query request

LoginTopKs == 1..LoginTopK

\* the two chunks in either order
LoginLists == { <<LoginA, LoginB>>, <<LoginB, LoginA>> }

LoginNext ==
    \/ \E chunks \in LoginLists, query \in LoginQueries, top_k \in LoginTopKs,
          mode \in SearchModes :
           Retrieve(chunks, <<>>, query, top_k, mode[1], mode[2], NoFilter)
    \/ \E top_k \in {NoneInt} \cup LoginTopKs : RerankLight(top_k)
    \/ RerankReturn

SpecLogin == Init /\ [][LoginNext]_vars

Position(results, id) == {i \in 1..Len(results) : results[i].chunk_id = id}

\* the chunk a is in the list, ahead of the chunk b if that is in the list too
RankedAbove(results, a, b) ==
    /\ Position(results, a) # {}
    /\ \A i \in Position(results, a), j \in Position(results, b) : i < j

\* a hybrid search for "login function" with top_k = 5 has returned
LoginSearched ==
    /\ rr_search.op = "search"
    /\ rr_search.use_hybrid
    /\ ~rr_search.raised
    /\ rr_search.query = LoginQuery
    /\ rr_search.top_k = LoginTopK

-----------------------------------------------------------------------------
(* _reciprocal_rank_fusion as a function of the weights and the stage lists *)

MaxStage == 3       \* longest stage list passed to the fusion

\* the weights a retriever is created with: the defaults, a small and a large one
FuseWeights == { <<1, 100>>, Bm25Weight, DenseWeight, <<5, 1>> }

\* an entry of a stage list
StageEntry(id) ==
    [chunk_id |-> id, content |-> <<>>, metadata |-> [file_path |-> PathA], score |-> Zero]

\* the lists a stage returns: up to MaxStage chunks, each once
StageLists ==
    UNION { { [i \in 1..n |-> StageEntry(ids[i])] :
                ids \in {f \in [1..n -> ChunkIds] : Cardinality(Range(f)) = n} } :
            n \in 0..MaxStage }

\* HybridRetriever(dense_weight, bm25_weight)._reciprocal_rank_fusion(dense, bm25)
CallFusion ==
    /\ FnIdle
    /\ \E dense_weight \in FuseWeights, bm25_weight \in FuseWeights,
          dense_results \in StageLists, bm25_results \in StageLists :
          /\ fn_call' = [op |-> "fusion", dense_weight |-> dense_weight,
                         bm25_weight |-> bm25_weight, dense_results |-> dense_results,
                         bm25_results |-> bm25_results]
          /\ fn_out' = ReciprocalRankFusionWith(dense_weight, bm25_weight,
                                                dense_results, bm25_results)
    /\ UNCHANGED <<retrVars, rerankVars, relVars, tokVars, apiVars>>

FuseNext ==
    \/ CallFusion
    \/ FnReturn

SpecFuse == Init /\ [][FuseNext]_vars

\* the chunk is first in the dense list and first in the lexical list of the call
FirstInBoth(id) ==
    /\ fn_call.dense_results # <<>>
    /\ fn_call.bm25_results # <<>>
    /\ fn_call.dense_results[1].chunk_id = id
    /\ fn_call.bm25_results[1].chunk_id = id

\* the fused score of a chunk at rank 1 in both lists, (dense + bm25) / (k + 1)
TopScore == RAdd(Rat(fn_call.dense_weight[1], fn_call.dense_weight[2] * (RrfK + 1)),
                 Rat(fn_call.bm25_weight[1], fn_call.bm25_weight[2] * (RrfK + 1)))

\* C19: for two non-empty stage lists and positive weights, a chunk at rank 1 in
\* both lists is first in the fused list with the score (dense + bm25) / (k + 1),
\* and every chunk that is at rank 1 in one list only or in none has a fused score
\* strictly below that
C19_FirstInBothWins ==
    (fn_call.op = "fusion" /\ fn_call.dense_results # <<>> /\ fn_call.bm25_results # <<>>) =>
        \A i \in 1..Len(fn_out) :
            IF FirstInBoth(fn_out[i].chunk_id)
            THEN i = 1 /\ REq(fn_out[i].score, TopScore)
            ELSE RLess(fn_out[i].score, TopScore)

\* a fusion whose first chunk leads both lists, whose second is second in both and
\* whose third leads neither, the lexical weight a hundred times the dense one or more
C19_LeaderAndRunnerUp ==
    /\ fn_call.op = "fusion"
    /\ Len(fn_out) >= 3
    /\ FirstInBoth(fn_out[1].chunk_id)
    /\ fn_out[2].dense_rank = 2
    /\ fn_out[2].bm25_rank = 2
    /\ RLeq(Rat(100 * fn_call.dense_weight[1], fn_call.dense_weight[2]), fn_call.bm25_weight)

\* the 1-based rank of the chunk in a stage list, None where the list has it not
RankIn(results, id) ==
    IF Position(results, id) = {} THEN NoneInt
    ELSE CHOOSE i \in Position(results, id) : TRUE

\* weight / (60 + r) for a rank r, 0 for the rank None
Share(weight, r) ==
    IF r = NoneInt THEN Zero ELSE Rat(weight[1], weight[2] * (60 + r))

\* C21: every entry of the fused list has the score
\* dense_weight / (60 + r_d) + bm25_weight / (60 + r_b), r_d and r_b its 1-based
\* ranks in the dense and the lexical list and a list without it contributing 0;
\* its dense_rank and bm25_rank are r_d and r_b, None for a list without it
C21_FusedScoreAndRanks ==
    fn_call.op = "fusion" =>
        \A i \in 1..Len(fn_out) :
            LET r_d == RankIn(fn_call.dense_results, fn_out[i].chunk_id)
                r_b == RankIn(fn_call.bm25_results, fn_out[i].chunk_id)
            IN  /\ REq(fn_out[i].score,
                       RAdd(Share(fn_call.dense_weight, r_d),
                            Share(fn_call.bm25_weight, r_b)))
                /\ fn_out[i].dense_rank = r_d
                /\ fn_out[i].bm25_rank = r_b

\* a fusion with different weights whose list holds a chunk of both lists at
\* different ranks below the first, one of the dense list alone and one of the
\* lexical list alone
C21_AllThreeKinds ==
    /\ fn_call.op = "fusion"
    /\ fn_call.dense_weight # fn_call.bm25_weight
    /\ \E i, j, k \in 1..Len(fn_out) :
          /\ fn_out[i].dense_rank > 1
          /\ fn_out[i].bm25_rank > 1
          /\ fn_out[i].dense_rank # fn_out[i].bm25_rank
          /\ fn_out[j].dense_rank # NoneInt /\ fn_out[j].bm25_rank = NoneInt
          /\ fn_out[k].dense_rank = NoneInt /\ fn_out[k].bm25_rank # NoneInt


-----------------------------------------------------------------------------
(* BaseChunker._generate_chunk_id as a function of its arguments *)

MaxLine == 12       \* largest start line of a chunk

DecimalDigits == <<"0", "1", "2", "3", "4", "5", "6", "7", "8", "9">>

RECURSIVE Str(_)
\* str(n) for n >= 0
Str(n) == IF n < 10 THEN <<DecimalDigits[n + 1]>>
          ELSE Append(Str(n \div 10), DecimalDigits[(n % 10) + 1])

\* BaseChunker._generate_chunk_id(file_path, chunk_type, name, start_line)
GenerateChunkId(file_path, chunk_type, name, start_line) ==
    LET path_part == <<ReplaceChar(ReplaceChar(file_path, "/", "_"), ".", "_")>>
        name_part == IF Truthy(name) THEN <<name>> ELSE <<>>
    IN  JoinWith(<<"_">>, path_part \o <<chunk_type>> \o name_part \o <<Str(start_line)>>)

\* a/b.py, a_b.py, a.py and ab.py: files one repository can hold together
IdPaths == { <<"a","/","b",".","p","y">>, <<"a","_","b",".","p","y">>, <<"a",".","p","y">>, <<"a","b",".","p","y">> }

\* the kinds, as the strings the chunker passes
IdTypes == { <<"f","u","n","c","t","i","o","n">>, <<"c","l","a","s","s">> }

IdNames == { NoneStr, <<"f">>, <<"g">> }

IdLines == { 1, 2, MaxLine }

IdTuples == IdPaths \X IdTypes \X IdNames \X IdLines

\* two calls of _generate_chunk_id made while one repository is chunked
CallGenerateChunkId ==
    /\ FnIdle
    /\ \E first \in IdTuples, second \in IdTuples :
          /\ fn_call' = [op |-> "generate_chunk_id", first |-> first, second |-> second]
          /\ fn_out' = << GenerateChunkId(first[1], first[2], first[3], first[4]),
                          GenerateChunkId(second[1], second[2], second[3], second[4]) >>
    /\ UNCHANGED <<retrVars, rerankVars, relVars, tokVars, apiVars>>

IdNext ==
    \/ CallGenerateChunkId
    \/ FnReturn

SpecId == Init /\ [][IdNext]_vars

\* C20: _generate_chunk_id gives the same (file path, chunk kind, name, start
\* line) the same id, and two different tuples two different ids
C20_ChunkIdInjective ==
    fn_call.op = "generate_chunk_id" =>
        ((fn_call.first = fn_call.second) <=> (fn_out[1] = fn_out[2]))

-----------------------------------------------------------------------------
(* The retriever with its dependency graph: index, a failing index, search *)

\* a chunk of a.py; chunks of a.py and b.py; chunks of a.py, b.py and c.py; the
\* chunk of m.py
DepChunkLists ==
    { SelectSeq(PoolSeq, LAMBDA c : c.chunk_id \in S) :
        S \in {{"k1"}, {"k1", "k3"}, {"k1", "k2", "k4"}} } \cup { <<TwinM>> }

\* the chain a.py -> b.py -> c.py, and m.py -> a_b.py beside a/b.py
DepFileLists == { <<FileA, FileB, FileC>>, TwinFiles }

\* index(TwinList, TwinFiles): collection.add refuses the batch, two of its ids
\* being equal, and the exception leaves index() as a failing embedding does
IndexTwins == IndexFails(TwinList, TwinFiles, 1)

\* no filter, and the file filter a query request can carry
DepFilters == {NoFilter, PathA}

DepNext ==
    \/ \E chunks \in DepChunkLists, files \in DepFileLists : Index(chunks, files)
    \/ \E chunks \in DepChunkLists : IndexChunks(chunks)
    \/ IndexTwins
    \/ \E query \in Queries, top_k \in TopKs, use_dependencies \in BOOLEAN,
          filter \in DepFilters :
           Search(query, top_k, TRUE, use_dependencies, filter)
    \/ Return

SpecDeps == Init /\ [][DepNext]_vars

\* the hybrid search that has just returned went through _expand_with_dependencies
Expanded ==
    /\ HybridReturned
    /\ lastOp.use_dependencies
    /\ graph_builder.present
    /\ StageDense # <<>> \/ StageBm25 # <<>>

\* the file is a direct dependency or a direct dependent of one of the files
DirectlyRelated(g, file, tops) ==
    \E t \in tops : <<t, file>> \in g.edges \/ <<file, t>> \in g.edges

\* the entries _expand_with_dependencies appended to the fused list
Appended(fused, out) == SubSeq(out, Len(fused) + 1, Len(out))

\* the entry is the dependency-sourced entry of a chunk of the list index() was
\* last given, with score 0.1 and the tag
OfIndexedChunk(entry) ==
    /\ \E i \in 1..Len(hr_chunks) :
           /\ hr_chunks[i].chunk_id = entry.chunk_id
           /\ hr_chunks[i].content = entry.content
           /\ hr_chunks[i].file_path = entry.metadata.file_path
    /\ entry.score = <<1, 10>>
    /\ FromDependency(entry)
    /\ entry.from_dependency
    /\ entry.metadata.from_dependency

\* C22: _expand_with_dependencies leaves the fused entries as they are and in
\* their order, and appends at most 6 entries, of at most 3 files and at most 2 of
\* each; every appended entry is of a file that is a direct dependency or
\* dependent of the file of one of the top 5 fused entries and that no fused entry
\* references, is a chunk of the indexed chunk list, and carries score 0.1 and the
\* from_dependency tag
C22_ExpansionAppendsNeighbourChunks ==
    Expanded =>
        LET fused == ReciprocalRankFusion(StageDense, StageBm25)
            tops == {fused[i].metadata.file_path : i \in 1..Len(Take(fused, 5))}
        IN  \A order \in NewFileOrders(graph_builder, fused) :
                LET out == ExpandWithDependencies(fused, order, graph_builder,
                                                  hr_chunks, file_to_chunks)
                    added == Appended(fused, out)
                    files == {added[i].metadata.file_path : i \in 1..Len(added)}
                IN  /\ Len(out) >= Len(fused)
                    /\ SubSeq(out, 1, Len(fused)) = fused
                    /\ Len(added) <= 6
                    /\ Cardinality(files) <= 3
                    /\ \A f \in files :
                           Cardinality({i \in 1..Len(added) :
                                           added[i].metadata.file_path = f}) <= 2
                    /\ \A i \in 1..Len(added) :
                           /\ DirectlyRelated(graph_builder,
                                              added[i].metadata.file_path, tops)
                           /\ added[i].metadata.file_path \notin ResultFiles(fused)
                           /\ OfIndexedChunk(added[i])

-----------------------------------------------------------------------------
(* LightweightReranker.rerank: the score of every candidate *)

MaxRanked == 2      \* longest candidate list whose scores are compared

\* no term; "abc" twice and "DE"; "DE" and "x"
BoostQueries == { <<>>, <<"a","b","c"," ","a","b","c"," ","D","E">>, <<"D","E"," ","x">> }

BoostContents == { <<"A","B","C"," ","d","e">>, <<"x","y","z">> }

\* <<name, kind, score>> of a candidate: a name or none, the three kinds, and a
\* score that is there, missing or None
BoostProfiles ==
    { << <<>>, "function", <<1, 2>> >>,
      << <<>>, "class", NoneScore >>,
      << <<>>, "module", MissingScore >>,
      << <<"A","b","c"," ","d","e">>, "function", <<1, 2>> >>,
      << <<"A","b","c"," ","d","e">>, "class", MissingScore >>,
      << <<"A","b","c"," ","d","e">>, "module", NoneScore >> }

\* candidate lists of one content, the entries differing in name, kind and score
BoostLists ==
    UNION { { [i \in 1..n |-> Candidate(of[i][1], content, of[i][2], of[i][3])] :
                of \in [1..n -> BoostProfiles], content \in BoostContents } :
            n \in 0..MaxRanked }

\* LightweightReranker().rerank(query, results, top_k)
CallRerank ==
    /\ FnIdle
    /\ \E query \in BoostQueries, results \in BoostLists, top_k \in {NoneInt, 1} :
          /\ fn_call' = [op |-> "rerank", query |-> query, results |-> results,
                         top_k |-> top_k]
          /\ fn_out' = LightRerank(query, results, top_k)
    /\ UNCHANGED <<retrVars, rerankVars, relVars, tokVars, apiVars>>

BoostNext ==
    \/ CallRerank
    \/ FnReturn

SpecBoost == Init /\ [][BoostNext]_vars

\* the whitespace-separated terms of a string: its longest pieces without a
\* whitespace character
TermsOf(s) ==
    { SubSeq(s, i, j) : <<i, j>> \in
        { ij \in (1..Len(s)) \X (1..Len(s)) :
            /\ ij[1] <= ij[2]
            /\ \A k \in ij[1]..ij[2] : s[k] \notin WhiteChars
            /\ ij[1] = 1 \/ s[ij[1] - 1] \in WhiteChars
            /\ ij[2] = Len(s) \/ s[ij[2] + 1] \in WhiteChars } }

\* the score the candidate is to get, the boosts counted in twentieths
ExpectedScore(query, given) ==
    LET terms == TermsOf(Lower(query))
        content == Lower(given.content)
        name == Lower(given.metadata.name)
        kind == given.metadata.chunk_type
        base == IF "score" \in DOMAIN given /\ given.score # NoneScore
                THEN given.score ELSE <<0, 1>>
        boost == 2 * Cardinality({t \in terms : Len(t) > 2 /\ Contains(t, content)})
                 + (IF name # <<>> /\ Contains(name, Lower(query)) THEN 6 ELSE 0)
                 + 3 * Cardinality({t \in terms : Contains(t, name)})
                 + (IF kind = "function" THEN 2 ELSE IF kind = "class" THEN 1 ELSE 0)
    IN  RAdd(base, <<boost, 20>>)

\* the returned entry is the given one, scored as expected
ScoredAsExpected(returned, given) ==
    /\ returned.content = given.content
    /\ returned.metadata = given.metadata
    /\ REq(returned.score, ExpectedScore(fn_call.query, given))

\* C23: LightweightReranker.rerank gives every candidate the score base + 0.1 per
\* distinct query term longer than 2 characters that occurs in the lower-cased
\* content + 0.3 if the lower-cased name is non-empty and occurs in the lower-cased
\* query + 0.15 per distinct query term that occurs in the lower-cased name + 0.1
\* for a function or 0.05 for a class, base being the incoming score with missing
\* or None taken as 0; the returned list is ordered by that score descending
C23_RerankScoreFormula ==
    (fn_call.op = "rerank" /\ fn_call.results # <<>>) =>
        /\ \E from \in [1..Len(fn_out) -> 1..Len(fn_call.results)] :
               /\ \A p, q \in 1..Len(fn_out) : from[p] = from[q] => p = q
               /\ \A p \in 1..Len(fn_out) :
                      ScoredAsExpected(fn_out[p], fn_call.results[from[p]])
        /\ Len(fn_out) = IF fn_call.top_k = NoneInt THEN Len(fn_call.results) ELSE 1
        /\ \A p \in 1..Len(fn_out) - 1 : RLeq(fn_out[p + 1].score, fn_out[p].score)
        /\ fn_call.top_k = 1 =>
               \A i \in 1..Len(fn_call.results) :
                   RLeq(ExpectedScore(fn_call.query, fn_call.results[i]), fn_out[1].score)

\* a class named "Abc de" without a score went ahead of a function with score 0.5
\* and no name, on a query with "abc" twice and "DE" and a content holding both
C23_EveryBoostCounted ==
    /\ fn_call.op = "rerank"
    /\ fn_call.query = <<"a","b","c"," ","a","b","c"," ","D","E">>
    /\ Len(fn_out) = 2
    /\ fn_call.results[1].metadata.chunk_type = "function"
    /\ fn_call.results[1].metadata.name = <<>>
    /\ "score" \in DOMAIN fn_call.results[1]
    /\ fn_call.results[1].score = <<1, 2>>
    /\ fn_call.results[2].metadata.chunk_type = "class"
    /\ fn_call.results[2].metadata.name # <<>>
    /\ "score" \notin DOMAIN fn_call.results[2]
    /\ fn_out[1].metadata.chunk_type = "class"
    /\ REq(fn_out[1].score, <<3, 4>>)
    /\ REq(fn_out[2].score, <<7, 10>>)

-----------------------------------------------------------------------------
(* DependencyGraphBuilder.build_graph as a function of the files *)

\* DependencyGraphBuilder().build_graph(files)
CallBuildGraph ==
    /\ FnIdle
    /\ \E files \in BuildFileLists :
          /\ fn_call' = [op |-> "build_graph", files |-> files]
          /\ fn_out' = BuildGraph(files, nx_available)
    /\ UNCHANGED <<retrVars, rerankVars, relVars, tokVars, apiVars>>

BuildNext ==
    \/ CallBuildGraph
    \/ FnReturn

SpecBuild == GraphInit /\ [][BuildNext]_vars

\* the paths of the Python files of the call that parsed
ParsedPython ==
    {fn_call.files[i].path :
        i \in {j \in 1..Len(fn_call.files) :
                  fn_call.files[j].language = "python" /\ fn_call.files[j].parses}}

\* C24: after build_graph the nodes of the graph are the Python files that parsed
\* and every edge connects two of them: an import that resolves to no such file
\* adds neither an edge nor a node
C24_EdgesConnectParsedFiles ==
    (fn_call.op = "build_graph" /\ fn_out.has_graph) =>
        /\ fn_out.nodes = ParsedPython
        /\ \A e \in fn_out.edges : e[1] \in ParsedPython /\ e[2] \in ParsedPython

\* a graph built from files among which a.py imports os, p/q.py imports its
\* sibling p/r.py, the unparsed e.py and the missing p.zz
C24_UnresolvedImportsDropped ==
    /\ fn_call.op = "build_graph"
    /\ fn_out.has_graph
    /\ \E i, j, k \in 1..Len(fn_call.files) :
          /\ fn_call.files[i] = FileA
          /\ fn_call.files[j] = FileBad
          /\ fn_call.files[k] = FileQ
    /\ <<FileQ.path, FilePR.path>> \in fn_out.edges
    /\ <<PathA, PathB>> \in fn_out.edges
    /\ FileBad.path \notin fn_out.nodes

-----------------------------------------------------------------------------
(* search with a metadata filter *)

\* C25: a hybrid search called with a metadata filter returns only entries whose
\* metadata equals the filter on the filtered field, whichever of the dense
\* stage, the lexical stage and the dependency expansion they came from
C25_FilterHoldsForEveryEntry ==
    (HybridReturned /\ lastOp.filter # NoFilter) =>
        \A i \in 1..Len(lastResult) : lastResult[i].metadata.file_path = lastOp.filter

-----------------------------------------------------------------------------
(* index without files after an index with files *)

\* C26: after index() was called without files, a hybrid search draws on no
\* dependency graph of an earlier index() call: it returns the first top_k entries
\* of the fused list, and no dependency-sourced entry
C26_NoFilesNoStaleGraph ==
    (lastCall.op = "index_chunks" /\ HybridReturned) =>
        /\ lastResult = Take(ReciprocalRankFusion(StageDense, StageBm25), lastOp.top_k)
        /\ \A i \in 1..Len(lastResult) : ~FromDependency(lastResult[i])

-----------------------------------------------------------------------------
(* src/api.py: a failing /index after a successful one *)

\* a worker is serving a POST /index
Indexing ==
    \E t \in Threads :
        api_threads[t].pc \in {"index_63", "index_66", "index_running", "index_68"}

\* C27: once an /index request has succeeded, a later /index request that fails
\* leaves the global state as it was: whenever no /index request is being served,
\* the retriever a /query finds in the state is one whose index() completed, never
\* one that was created but not indexed
C27_FailedIndexKeepsLastRetriever ==
    (/\ api_state.indexed
     /\ ~Indexing
     /\ \E r \in 1..Len(api_retrievers) : api_retrievers[r] = "indexed") =>
        api_retrievers[api_state.retriever] = "indexed"

-----------------------------------------------------------------------------
(* src/api/routes.py: the ingest endpoint as a function of the module state and
   of what loading, chunking and indexing do *)

MaxFiles == 2       \* most files a repository yields, and most chunks

RepoNames == {"r1", "r2"}

\* _indexed_repos before the request: no name twice
RepoLists ==
    UNION { {f \in [1..n -> RepoNames] : Cardinality(Range(f)) = n} : n \in 0..2 }

\* the call that raises an exception of its own, if one does
IngestFailures == {"none", "clone_repo", "chunk_files", "index"}

\* the body of the try block, lines 58-93: what it raises or returns, whether
\* retriever.index was entered, and _indexed_repos after it
IngestBody(repos, repo_name, files, chunks, fails) ==
    IF fails = "clone_repo"
    THEN [raised |-> "Exception", status_code |-> 0, indexed |-> FALSE, repos |-> repos]
    ELSE IF files = 0
    THEN [raised |-> "HTTPException", status_code |-> 400, indexed |-> FALSE, repos |-> repos]
    ELSE IF fails = "chunk_files"
    THEN [raised |-> "Exception", status_code |-> 0, indexed |-> FALSE, repos |-> repos]
    ELSE IF chunks = 0
    THEN [raised |-> "HTTPException", status_code |-> 400, indexed |-> FALSE, repos |-> repos]
    ELSE IF fails = "index"
    THEN [raised |-> "Exception", status_code |-> 0, indexed |-> TRUE, repos |-> repos]
    ELSE [raised |-> "none", status_code |-> 200, indexed |-> TRUE,
          repos |-> IF repo_name \in Range(repos) THEN repos ELSE Append(repos, repo_name)]

\* ingest_repository(request): "except Exception" takes every exception the body
\* raises, an HTTPException too, and raises HTTPException(status_code=500)
IngestRepository(repos, repo_name, files, chunks, fails) ==
    LET body == IngestBody(repos, repo_name, files, chunks, fails)
    IN  IF body.raised = "none" THEN body
        ELSE [body EXCEPT !.raised = "HTTPException", !.status_code = 500]

\* POST /ingest
CallIngest ==
    /\ FnIdle
    /\ \E repos \in RepoLists, repo_name \in RepoNames, files \in 0..MaxFiles,
          chunks \in 0..MaxFiles, fails \in IngestFailures :
          /\ fn_call' = [op |-> "ingest", repos |-> repos, repo_name |-> repo_name,
                         files |-> files, chunks |-> chunks, fails |-> fails]
          /\ fn_out' = IngestRepository(repos, repo_name, files, chunks, fails)
    /\ UNCHANGED <<retrVars, rerankVars, relVars, tokVars, apiVars>>

IngestNext ==
    \/ CallIngest
    \/ FnReturn

SpecIngest == Init /\ [][IngestNext]_vars

\* the repository yields no files, or chunking yields no chunks, and no call
\* raises an exception of its own before that is found
NothingToIndex ==
    \/ fn_call.fails # "clone_repo" /\ fn_call.files = 0
    \/ fn_call.fails \notin {"clone_repo", "chunk_files"} /\ fn_call.files > 0
           /\ fn_call.chunks = 0

\* C28: the ingest endpoint answers 400 when the repository yields no files or
\* chunking yields no chunks, the retriever not indexed and _indexed_repos as
\* before, and answers 500 only when a call raised an unexpected exception
C28_IngestAnswers400 ==
    fn_call.op = "ingest" =>
        /\ NothingToIndex =>
               /\ fn_out.status_code = 400
               /\ ~fn_out.indexed
               /\ fn_out.repos = fn_call.repos
        /\ fn_out.status_code = 500 => fn_call.fails # "none"

-----------------------------------------------------------------------------
(* where search puts the dependency-sourced entries *)

\* C29: search with use_dependencies returns the fused entries first, in their
\* order, and dependency-sourced entries only after them: with top_k or more
\* fused entries it returns no dependency-sourced entry, and in no returned list
\* does a dependency-sourced entry precede an organic one
C29_DependenciesAfterFused ==
    (HybridReturned /\ lastOp.use_dependencies) =>
        LET fused == ReciprocalRankFusion(StageDense, StageBm25)
            kept == Take(fused, lastOp.top_k)
        IN  /\ Len(lastResult) <= lastOp.top_k
            /\ Take(lastResult, Len(kept)) = kept
            /\ \A i \in 1..Len(kept) : ~FromDependency(lastResult[i])
            /\ Len(fused) >= lastOp.top_k =>
                   \A i \in 1..Len(lastResult) : ~FromDependency(lastResult[i])
            /\ \A i, j \in 1..Len(lastResult) :
                   (FromDependency(lastResult[i]) /\ ~FromDependency(lastResult[j])) => j < i

\* a search whose fused list held top_k entries, so that the entry the expansion
\* appended to it was cut off
C29_AppendedEntryCutOff ==
    /\ Expanded
    /\ lastOp.top_k >= 1
    /\ LET fused == ReciprocalRankFusion(StageDense, StageBm25)
       IN  /\ Len(fused) >= lastOp.top_k
           /\ \E order \in NewFileOrders(graph_builder, fused) :
                  Len(ExpandWithDependencies(fused, order, graph_builder,
                                             hr_chunks, file_to_chunks)) > Len(fused)

-----------------------------------------------------------------------------
(* search from the stage lists on: fusion, expansion and the cut, as a function
   of the two lists and of the retriever's chunk list and graph *)

MaxRepeat == 2      \* longest stage list, an entry allowed in it more than once

\* the retriever holds the pool's chunks and the graph a.py -> b.py -> c.py, or
\* the same chunks and no graph builder, or the three chunks two of which share
\* an identity and the graph m.py -> a_b.py
Holdings ==
    { [chunks |-> PoolSeq, files |-> <<FileA, FileB, FileC>>],
      [chunks |-> PoolSeq, files |-> <<>>],
      [chunks |-> TwinList, files |-> TwinFiles] }

\* an entry as VectorStore.search formats it
DenseEntry(chunk) ==
    [chunk_id |-> chunk.chunk_id, content |-> ToEmbeddingText(chunk),
     metadata |-> PrepareMetadata(chunk), score |-> <<1, 2>>]

\* the lists of up to MaxRepeat entries, every entry that of a chunk held
ListsOf(Entries) == UNION { [1..n -> Entries] : n \in 0..MaxRepeat }

\* lines 83-94 of search(query, top_k, use_dependencies=...) once the two stages
\* have returned dense_results and bm25_results
CallCombine ==
    /\ FnIdle
    /\ \E held \in Holdings, top_k \in 1..(MaxTopK + 1), use_dependencies \in BOOLEAN :
          \E dense_results \in ListsOf({DenseEntry(held.chunks[i]) :
                                           i \in 1..Len(held.chunks)}),
             bm25_results \in ListsOf({BM25Entry(held.chunks[i], <<1, 1>>) :
                                          i \in 1..Len(held.chunks)}) :
             LET g == IF held.files = <<>> THEN NoBuilder ELSE BuildGraph(held.files, TRUE)
             IN  \E out \in CombineOutcomes(dense_results, bm25_results, g, held.chunks,
                                            FileToChunks(held.chunks), top_k,
                                            use_dependencies) :
                     /\ fn_call' = [op |-> "combine", held |-> held, top_k |-> top_k,
                                    use_dependencies |-> use_dependencies,
                                    dense_results |-> dense_results,
                                    bm25_results |-> bm25_results]
                     /\ fn_out' = out
    /\ UNCHANGED <<retrVars, rerankVars, relVars, tokVars, apiVars>>

CombineNext ==
    \/ CallCombine
    \/ FnReturn

SpecCombine == Init /\ [][CombineNext]_vars

\* C30: the list a hybrid search returns holds no chunk_id twice, whatever the two
\* stage lists are (a chunk in both, an id more than once in a list), with and
\* without dependency expansion
C30_ReturnedIdsDistinct ==
    fn_call.op = "combine" =>
        \A i, j \in 1..Len(fn_out) : fn_out[i].chunk_id = fn_out[j].chunk_id => i = j

\* the dense list named a chunk twice, the lexical list named it too, and the
\* returned list holds it once, followed by a dependency-sourced entry
C30_RepeatedIdReturnedOnce ==
    /\ fn_call.op = "combine"
    /\ Len(fn_call.dense_results) = 2
    /\ fn_call.dense_results[1].chunk_id = fn_call.dense_results[2].chunk_id
    /\ fn_call.bm25_results # <<>>
    /\ fn_call.bm25_results[1].chunk_id = fn_call.dense_results[1].chunk_id
    /\ Len(fn_out) >= 2
    /\ fn_out[1].chunk_id = fn_call.dense_results[1].chunk_id
    /\ FromDependency(fn_out[2])

=============================================================================
